---------------------------- MODULE Spec2Model ----------------------------
(***************************************************************************)
(* A model of the value-coercion engine (class Cast) and the colour model  *)
(* (class Color) of src/string_ext.js.                                     *)
(*                                                                         *)
(* Both classes are libraries of static functions.  Every function is an   *)
(* operator below, computed as the JavaScript computes it, on a model of   *)
(* the JavaScript values it handles:                                       *)
(*                                                                         *)
(*   number     [t |-> "number", k, n, d]   k = "fin": the rational n/d in *)
(*              lowest terms; k = "nan", "inf", "ninf": NaN, +Infinity,    *)
(*              -Infinity.  Arithmetic on finite numbers is exact, as that *)
(*              of IEEE doubles is on the short decimals and the integers  *)
(*              below 2^31 that the model draws.                           *)
(*   string     [t |-> "string", s]   s the sequence of its characters     *)
(*   boolean    [t |-> "boolean", b]                                       *)
(*   null       [t |-> "null"]          undefined  [t |-> "undefined"]     *)
(*   RGB object [t |-> "rgb", r, g, b], with a field a when it has alpha   *)
(*   a thrown exception  [t |-> "throw", error]                            *)
(*                                                                         *)
(* The state machine: one call of one function.  Init draws the call (the  *)
(* function and its arguments), the function's action runs it and stores   *)
(* what it returned (or threw).                                            *)
(***************************************************************************)
EXTENDS Integers, Sequences, FiniteSets, TLC

VARIABLES call, result, pc, canvas, loads, post, target

vars == <<call, result, pc, canvas, loads, post, target>>

(***************************************************************************)
(* Characters and strings                                                  *)
(***************************************************************************)

\* The characters of the model, each with its UTF-16 code unit: the digits
\* from 48, the upper-case letters from 65, the lower-case letters from 97.
Digits == <<"0", "1", "2", "3", "4", "5", "6", "7", "8", "9">>

UpperCase ==
    <<"A", "B", "C", "D", "E", "F", "G", "H", "I", "J", "K", "L", "M",
      "N", "O", "P", "Q", "R", "S", "T", "U", "V", "W", "X", "Y", "Z">>

LowerCase ==
    <<"a", "b", "c", "d", "e", "f", "g", "h", "i", "j", "k", "l", "m",
      "n", "o", "p", "q", "r", "s", "t", "u", "v", "w", "x", "y", "z">>

IndexIn(c, table) == CHOOSE i \in 1..Len(table) : table[i] = c

InTable(c, table) == \E i \in 1..Len(table) : table[i] = c

CharCode(c) ==
    IF InTable(c, Digits) THEN 47 + IndexIn(c, Digits)
    ELSE IF InTable(c, UpperCase) THEN 64 + IndexIn(c, UpperCase)
    ELSE IF InTable(c, LowerCase) THEN 96 + IndexIn(c, LowerCase)
    ELSE CASE c = "\t" -> 9
           [] c = "\n" -> 10
           [] c = " " -> 32
           [] c = "#" -> 35
           [] c = "+" -> 43
           [] c = "-" -> 45
           [] c = "." -> 46
           [] c = "_" -> 95

\* The character of a code unit (of a digit or a letter).
CharOfCode(code) ==
    IF code >= 48 /\ code <= 57 THEN Digits[code - 47]
    ELSE IF code >= 65 /\ code <= 90 THEN UpperCase[code - 64]
    ELSE LowerCase[code - 96]

\* String.prototype.toLowerCase, on one character and on a string.
LowerOfCode(c, code) ==
    IF code >= 65 /\ code <= 90 THEN CharOfCode(code + 32) ELSE c

LowerChar(c) == LowerOfCode(c, CharCode(c))

ToLowerCase(s) == [i \in 1..Len(s) |-> LowerChar(s[i])]

\* White space as String.prototype.trim and Number() strip it.
IsWhiteSpaceChar(c) == c \in {" ", "\t", "\n"}

RECURSIVE TrimStart(_)
TrimStart(s) ==
    IF s # <<>> /\ IsWhiteSpaceChar(Head(s)) THEN TrimStart(Tail(s)) ELSE s

RECURSIVE TrimEnd(_)
TrimEnd(s) ==
    IF s # <<>> /\ IsWhiteSpaceChar(s[Len(s)])
    THEN TrimEnd(SubSeq(s, 1, Len(s) - 1))
    ELSE s

Trim(s) == TrimEnd(TrimStart(s))

\* String.prototype.substring(start, end) for 0 <= start <= end: the
\* characters from position start (counted from 0) up to end, end excluded
\* and cut at the length of the string.
Substring(s, start, end) ==
    LET last == IF end < Len(s) THEN end ELSE Len(s)
    IN  IF start >= last THEN <<>> ELSE SubSeq(s, start + 1, last)

\* s1 < s2 on strings: the order of the code units, a proper prefix first.
RECURSIVE StrLess(_, _)
StrLess(s1, s2) ==
    IF s2 = <<>> THEN FALSE
    ELSE IF s1 = <<>> THEN TRUE
    ELSE IF Head(s1) = Head(s2) THEN StrLess(Tail(s1), Tail(s2))
    ELSE CharCode(Head(s1)) < CharCode(Head(s2))

\* The value of the hexadecimal digit with this code unit, or 16.
HexValueOfCode(code) ==
    IF code >= 48 /\ code <= 57 THEN code - 48
    ELSE IF code >= 97 /\ code <= 102 THEN code - 87
    ELSE IF code >= 65 /\ code <= 70 THEN code - 55
    ELSE 16

BelowRadix(v, radix) == IF v < radix THEN v ELSE -1

\* The value of a digit in a radix up to 16, or -1 when it is none.
DigitValue(c, radix) == BelowRadix(HexValueOfCode(CharCode(c)), radix)

IsDigits(s, radix) ==
    s # <<>> /\ \A i \in 1..Len(s) : DigitValue(s[i], radix) >= 0

RECURSIVE DigitsValue(_, _)
DigitsValue(s, radix) ==
    IF s = <<>> THEN 0
    ELSE DigitsValue(SubSeq(s, 1, Len(s) - 1), radix) * radix
         + DigitValue(s[Len(s)], radix)

DigitChar(d) == IF d < 10 THEN CharOfCode(48 + d) ELSE CharOfCode(87 + d)

\* The digits of a non-negative integer in a radix, lower case, no padding:
\* Number.prototype.toString(radix) on such an integer.
RECURSIVE NatToDigits(_, _)
NatToDigits(n, radix) ==
    IF n < radix THEN <<DigitChar(n)>>
    ELSE Append(NatToDigits(n \div radix, radix), DigitChar(n % radix))

(***************************************************************************)
(* Numbers                                                                 *)
(***************************************************************************)

Abs(x) == IF x < 0 THEN -x ELSE x

RECURSIVE GCD(_, _)
GCD(a, b) == IF b = 0 THEN a ELSE GCD(b, a % b)

RECURSIVE Pow(_, _)
Pow(base, e) == IF e = 0 THEN 1 ELSE base * Pow(base, e - 1)

Reduce(n, d, g) == [t |-> "number", k |-> "fin", n |-> n \div g, d |-> d \div g]

\* The finite number n/d (d > 0), in lowest terms.
Rat(n, d) == Reduce(n, d, GCD(Abs(n), d))

Num(i) == [t |-> "number", k |-> "fin", n |-> i, d |-> 1]

NaN == [t |-> "number", k |-> "nan", n |-> 0, d |-> 1]
Infinity == [t |-> "number", k |-> "inf", n |-> 1, d |-> 1]
NegInfinity == [t |-> "number", k |-> "ninf", n |-> -1, d |-> 1]

\* The number m * 10^e for one digit m (with its sign) and e >= 21: a whole
\* number too large for the integers of the model, which String() prints
\* with an exponent.  Only isInt is called with such numbers.
ExpNumber(m, e) == [t |-> "number", k |-> "big", n |-> m, d |-> e]

IsNumber(v) == v.t = "number"
IsNaN(x) == x.k = "nan"
IsFinite(x) == x.k = "fin"
IsInteger(x) == x.k = "fin" /\ x.d = 1

\* x === y on numbers: NaN equals nothing.
NumEq(x, y) == ~IsNaN(x) /\ ~IsNaN(y) /\ x = y

\* x < y on numbers: false when either is NaN.
NumLess(x, y) ==
    IF IsNaN(x) \/ IsNaN(y) THEN FALSE
    ELSE IF x.k = "ninf" THEN y.k # "ninf"
    ELSE IF x.k = "inf" THEN FALSE
    ELSE IF y.k = "inf" THEN TRUE
    ELSE IF y.k = "ninf" THEN FALSE
    ELSE x.n * y.d < y.n * x.d

\* x - y on numbers, as IEEE 754 defines it on NaN and the infinities.
NumSub(x, y) ==
    IF IsNaN(x) \/ IsNaN(y) THEN NaN
    ELSE IF x.k = "fin" /\ y.k = "fin" THEN Rat(x.n * y.d - y.n * x.d, x.d * y.d)
    ELSE IF x.k = "fin" THEN (IF y.k = "inf" THEN NegInfinity ELSE Infinity)
    ELSE IF y.k = "fin" THEN x
    ELSE IF x.k = y.k THEN NaN
    ELSE x

\* x * y on a number and a finite number.
NumMul(x, y) ==
    IF IsNaN(x) \/ IsNaN(y) THEN NaN
    ELSE IF x.k = "fin" /\ y.k = "fin" THEN Rat(x.n * y.n, x.d * y.d)
    ELSE IF (IF x.k = "fin" THEN x.n ELSE y.n) = 0 THEN NaN
    ELSE IF (x.n < 0) = (y.n < 0) THEN Infinity ELSE NegInfinity

NumAdd(x, y) ==
    IF IsNaN(x) \/ IsNaN(y) THEN NaN
    ELSE IF x.k = "fin" /\ y.k = "fin" THEN Rat(x.n * y.d + y.n * x.d, x.d * y.d)
    ELSE IF x.k = "fin" THEN y
    ELSE IF y.k = "fin" THEN x
    ELSE IF x.k = y.k THEN x
    ELSE NaN

\* Math.floor: NaN and the infinities are returned as they are.
MathFloor(x) == IF x.k = "fin" THEN Num(x.n \div x.d) ELSE x

\* x <= y and x >= y on numbers: false when either is NaN.
NumLessEq(x, y) == ~IsNaN(x) /\ ~IsNaN(y) /\ ~NumLess(y, x)
NumGreaterEq(x, y) == NumLessEq(y, x)

NumNeg(x) ==
    IF x.k = "inf" THEN NegInfinity
    ELSE IF x.k = "ninf" THEN Infinity
    ELSE IF x.k = "nan" THEN NaN
    ELSE Rat(-x.n, x.d)

\* The quotient of two finite numbers, the divisor not zero.
FiniteQuotient(n, d) == IF d < 0 THEN Rat(-n, -d) ELSE Rat(n, d)

\* x / y on numbers, as IEEE 754 defines it on NaN, the infinities and a
\* zero divisor (the zero taken as positive).
NumDiv(x, y) ==
    IF IsNaN(x) \/ IsNaN(y) THEN NaN
    ELSE IF x.k = "fin" /\ y.k = "fin"
    THEN (IF y.n # 0 THEN FiniteQuotient(x.n * y.d, x.d * y.n)
          ELSE IF x.n = 0 THEN NaN
          ELSE IF x.n > 0 THEN Infinity ELSE NegInfinity)
    ELSE IF x.k = "fin" THEN Num(0)
    ELSE IF y.k # "fin" THEN NaN
    ELSE IF y.n >= 0 THEN x ELSE NumNeg(x)

\* n / d rounded towards zero, for d > 0.
TruncDiv(n, d) == IF n >= 0 THEN n \div d ELSE -((-n) \div d)

\* The remainder of n/d by m/e (m, e > 0), with the sign of n/d.
FiniteRemainder(n, d, m, e) ==
    Rat(n * e - TruncDiv(n * e, d * m) * m * d, d * e)

\* x % y on numbers: the remainder has the sign of the dividend; NaN when
\* the dividend is not finite or the divisor is zero.
NumMod(x, y) ==
    IF IsNaN(x) \/ IsNaN(y) \/ x.k # "fin" THEN NaN
    ELSE IF y.k # "fin" THEN x
    ELSE IF y.n = 0 THEN NaN
    ELSE FiniteRemainder(x.n, x.d, Abs(y.n), y.d)

\* Math.min and Math.max of two numbers: NaN when either is NaN.
MathMin(x, y) ==
    IF IsNaN(x) \/ IsNaN(y) THEN NaN ELSE IF NumLess(y, x) THEN y ELSE x

MathMax(x, y) ==
    IF IsNaN(x) \/ IsNaN(y) THEN NaN ELSE IF NumLess(x, y) THEN y ELSE x

(***************************************************************************)
(* JavaScript values and the language's own conversions                    *)
(***************************************************************************)

Str(s) == [t |-> "string", s |-> s]
Bool(b) == [t |-> "boolean", b |-> b]
Null == [t |-> "null"]
Undefined == [t |-> "undefined"]
Throw(e) == [t |-> "throw", error |-> e]
Pending == [t |-> "pending"]

IsString(v) == v.t = "string"
IsThrow(v) == v.t = "throw"

\* The first position of one of the characters cs in s, or 0.
IndexOfAny(s, cs) ==
    IF \E i \in 1..Len(s) : s[i] \in cs
    THEN CHOOSE i \in 1..Len(s) : s[i] \in cs /\ \A j \in 1..(i - 1) : s[j] \notin cs
    ELSE 0

\* The sign a literal starts with, and the literal without it.
SignOf(s) == IF s # <<>> /\ Head(s) = "-" THEN -1 ELSE 1

Unsigned(s) == IF s # <<>> /\ Head(s) \in {"+", "-"} THEN Tail(s) ELSE s

\* The parts of s before and after position i; with i = 0 (no such
\* position) all of s lies before it.
Before(s, i) == IF i = 0 THEN s ELSE SubSeq(s, 1, i - 1)

After(s, i) == IF i = 0 THEN <<>> ELSE SubSeq(s, i + 1, Len(s))

\* m times 10 to the power e10.
ScaleDecimal(m, e10) ==
    IF e10 >= 0 THEN Rat(m * Pow(10, e10), 1) ELSE Rat(m, Pow(10, -e10))

\* The value of the decimal literal with integer digits ip, fraction digits
\* fp and, when hasExp, the exponent expo: NaN unless each part is digits
\* and the mantissa has one.
DecimalOf(sign, ip, fp, hasExp, expo) ==
    IF /\ ip = <<>> \/ IsDigits(ip, 10)
       /\ fp = <<>> \/ IsDigits(fp, 10)
       /\ ip # <<>> \/ fp # <<>>
       /\ ~hasExp \/ IsDigits(Unsigned(expo), 10)
    THEN ScaleDecimal(sign * DigitsValue(ip \o fp, 10),
                      SignOf(expo) * DigitsValue(Unsigned(expo), 10) - Len(fp))
    ELSE NaN

SplitAtDot(sign, mant, dot, hasExp, expo) ==
    DecimalOf(sign, Before(mant, dot), After(mant, dot), hasExp, expo)

SplitAtExp(sign, u, epos) ==
    SplitAtDot(sign, Before(u, epos), IndexOfAny(Before(u, epos), {"."}),
               epos # 0, After(u, epos))

\* StrDecimalLiteral of the language's StringToNumber grammar: an optional
\* sign, digits with an optional point (or a point and digits), an optional
\* exponent.  What does not match is NaN.  (-0 is the number 0 here: the code
\* never tells them apart.)
ParseDecimal(lit) ==
    SplitAtExp(SignOf(lit), Unsigned(lit), IndexOfAny(Unsigned(lit), {"e", "E"}))

\* The radix of a 0x / 0o / 0b literal, or 0.
RadixOf(b) ==
    IF Len(b) >= 2 /\ b[1] = "0"
    THEN (IF b[2] \in {"x", "X"} THEN 16
          ELSE IF b[2] \in {"o", "O"} THEN 8
          ELSE IF b[2] \in {"b", "B"} THEN 2
          ELSE 0)
    ELSE 0

NumberInRadix(ds, radix) ==
    IF IsDigits(ds, radix) THEN Num(DigitsValue(ds, radix)) ELSE NaN

NumberOfTrimmed(b, radix) ==
    IF b = <<>> THEN Num(0)
    ELSE IF b \in {<<"I", "n", "f", "i", "n", "i", "t", "y">>,
                   <<"+", "I", "n", "f", "i", "n", "i", "t", "y">>} THEN Infinity
    ELSE IF b = <<"-", "I", "n", "f", "i", "n", "i", "t", "y">> THEN NegInfinity
    ELSE IF radix # 0 THEN NumberInRadix(SubSeq(b, 3, Len(b)), radix)
    ELSE ParseDecimal(b)

\* StringToNumber: white space is trimmed; the empty string is 0; then
\* Infinity with an optional sign, an unsigned 0x / 0o / 0b literal, or a
\* decimal literal.
StringToNumber(s) == NumberOfTrimmed(Trim(s), RadixOf(Trim(s)))

\* Number(value).
JsNumber(v) ==
    CASE v.t = "number" -> v
      [] v.t = "string" -> StringToNumber(v.s)
      [] v.t = "boolean" -> IF v.b THEN Num(1) ELSE Num(0)
      [] v.t = "null" -> Num(0)
      [] v.t = "undefined" -> NaN

\* The decimal digits of the fraction r/d, 0 <= r < d, by long division.
RECURSIVE FractionDigits(_, _)
FractionDigits(r, d) ==
    IF r = 0 THEN <<>>
    ELSE <<Digits[((r * 10) \div d) + 1]>> \o FractionDigits((r * 10) % d, d)

FiniteToString(n, a, d, radix) ==
    (IF n < 0 THEN <<"-">> ELSE <<>>)
    \o NatToDigits(a \div d, radix)
    \o (IF d = 1 THEN <<>> ELSE <<".">> \o FractionDigits(a % d, d))

\* Number.prototype.toString(radix) on NaN, the infinities, the integers
\* and, in radix 10, the decimal fractions the model draws (whose magnitude
\* lies between 1e-6 and 1e21, where no exponent is printed) and the
\* numbers m * 10^e from 1e21 on, printed as the digit m, "e+" and e.
NumberToString(x, radix) ==
    CASE x.k = "nan" -> <<"N", "a", "N">>
      [] x.k = "inf" -> <<"I", "n", "f", "i", "n", "i", "t", "y">>
      [] x.k = "ninf" -> <<"-", "I", "n", "f", "i", "n", "i", "t", "y">>
      [] x.k = "fin" /\ (x.d = 1 \/ radix = 10) ->
            FiniteToString(x.n, Abs(x.n), x.d, radix)
      [] x.k = "big" /\ radix = 10 ->
            (IF x.n < 0 THEN <<"-">> ELSE <<>>)
            \o NatToDigits(Abs(x.n), 10) \o <<"e", "+">> \o NatToDigits(x.d, 10)

\* String(value).
JsString(v) ==
    CASE v.t = "string" -> v.s
      [] v.t = "number" -> NumberToString(v, 10)
      [] v.t = "boolean" -> IF v.b THEN <<"t", "r", "u", "e">>
                            ELSE <<"f", "a", "l", "s", "e">>
      [] v.t = "null" -> <<"n", "u", "l", "l">>
      [] v.t = "undefined" -> <<"u", "n", "d", "e", "f", "i", "n", "e", "d">>

\* Boolean(value).
JsBoolean(v) ==
    CASE v.t = "boolean" -> v.b
      [] v.t = "number" -> ~(IsNaN(v) \/ v = Num(0))
      [] v.t = "string" -> v.s # <<>>
      [] v.t \in {"null", "undefined"} -> FALSE

\* The longest prefix of s made of digits of the radix.
RECURSIVE DigitPrefix(_, _)
DigitPrefix(s, radix) ==
    IF s # <<>> /\ DigitValue(Head(s), radix) >= 0
    THEN <<Head(s)>> \o DigitPrefix(Tail(s), radix)
    ELSE <<>>

StripRadixPrefix(u, radix) ==
    IF radix = 16 /\ Len(u) >= 2 /\ u[1] = "0" /\ u[2] \in {"x", "X"}
    THEN SubSeq(u, 3, Len(u))
    ELSE u

IntOfDigits(sign, ds, radix) ==
    IF ds = <<>> THEN NaN ELSE Num(sign * DigitsValue(ds, radix))

ParseIntTrimmed(b, radix) ==
    IntOfDigits(SignOf(b), DigitPrefix(StripRadixPrefix(Unsigned(b), radix), radix),
                radix)

\* parseInt(string, radix) for radix 10 or 16: leading white space and a
\* sign are skipped, radix 16 skips a 0x prefix, the longest digit prefix is
\* the value, and no digit at all is NaN.
ParseInt(s, radix) == ParseIntTrimmed(TrimStart(s), radix)

Truncate(n, d, q) == IF n < 0 /\ q * d # n THEN q + 1 ELSE q

\* ToInt32 of a number below 2^31 in magnitude (all the model draws): NaN
\* and the infinities are 0, a fraction is truncated towards 0.
ToInt32(x) == IF x.k # "fin" THEN 0 ELSE Truncate(x.n, x.d, x.n \div x.d)

\* i << k on a 32-bit integer i: the low 32 - k bits move up, and bit 31 of
\* the result is its sign.
ShiftLeft(i, k) ==
    LET m == i % Pow(2, 32 - k)
    IN  IF m >= Pow(2, 31 - k) THEN (m - Pow(2, 32 - k)) * Pow(2, k)
        ELSE m * Pow(2, k)

\* (i >> k) & 0xFF on a 32-bit integer i.
ByteAt(i, k) == (i \div Pow(2, k)) % 256

(***************************************************************************)
(* class Color                                                             *)
(***************************************************************************)

Rgb(r, g, b) == [t |-> "rgb", r |-> r, g |-> g, b |-> b]
Rgba(r, g, b, a) == [t |-> "rgb", r |-> r, g |-> g, b |-> b, a |-> a]

\* '#', the zeros that fill six digits, and the digits.
PadHex(hex) ==
    <<"#">> \o Substring(<<"0", "0", "0", "0", "0", "0">>, 0, 6 - Len(hex)) \o hex

\* Mutant of decimalToHex: the digits are not padded with zeros.
decimalToHex_Unpadded(decimal) ==
    Str(<<"#">> \o NumberToString(IF NumLess(decimal, Num(0))
                                  THEN NumAdd(decimal, Num(16777215 + 1))
                                  ELSE decimal,
                                  16))

\* Color.decimalToHex, on a number.
decimalToHex(decimal) ==
    Str(PadHex(NumberToString(IF NumLess(decimal, Num(0))
                              THEN NumAdd(decimal, Num(16777215 + 1))
                              ELSE decimal,
                              16)))

\* Mutant of RgbOfInt32: an alpha byte of zero is kept as zero.
RgbOfInt32_ZeroAlphaKept(i, a) ==
    Rgba(Num(ByteAt(i, 16)), Num(ByteAt(i, 8)), Num(ByteAt(i, 0)), Num(a))

RgbOfInt32(i, a) ==
    Rgba(Num(ByteAt(i, 16)), Num(ByteAt(i, 8)), Num(ByteAt(i, 0)),
         IF a > 0 THEN Num(a) ELSE Num(255))

\* Color.decimalToRgb, on a number.
decimalToRgb(decimal) == RgbOfInt32(ToInt32(decimal), ByteAt(ToInt32(decimal), 24))

\* An optional leading '#' removed.
StripHash(s) == IF s # <<>> /\ Head(s) = "#" THEN Tail(s) ELSE s

\* shorthandRegex and its replacer: three hex digits after an optional '#'
\* become the six digits with each one doubled, anything else stays.
DoubleDigits(s, h3) ==
    IF Len(h3) = 3 /\ IsDigits(h3, 16)
    THEN <<h3[1], h3[1], h3[2], h3[2], h3[3], h3[3]>>
    ELSE s

ExpandShorthand(s) == DoubleDigits(s, StripHash(s))

\* The second pattern and the parse of its three groups.
ExecHex(h6) ==
    IF Len(h6) = 6 /\ IsDigits(h6, 16)
    THEN Rgb(ParseInt(SubSeq(h6, 1, 2), 16),
             ParseInt(SubSeq(h6, 3, 4), 16),
             ParseInt(SubSeq(h6, 5, 6), 16))
    ELSE Null

\* Mutant of hexToRgb: the three-digit shorthand is not expanded.
hexToRgb_NoShorthand(hex) ==
    IF ~IsString(hex) THEN Throw("TypeError")
    ELSE ExecHex(StripHash(hex.s))

\* Color.hexToRgb: a value that is no string has no replace method.
hexToRgb(hex) ==
    IF ~IsString(hex) THEN Throw("TypeError")
    ELSE ExecHex(StripHash(ExpandShorthand(hex.s)))

\* Mutant of rgbToDecimal: red is shifted by 8 bits like green.
rgbToDecimal_RedShiftedBy8(rgb) ==
    IF rgb.t \in {"null", "undefined"} THEN Throw("TypeError")
    ELSE NumAdd(NumAdd(Num(ShiftLeft(ToInt32(rgb.r), 8)),
                       Num(ShiftLeft(ToInt32(rgb.g), 8))),
                rgb.b)

\* Color.rgbToDecimal: reading a property of null or undefined throws.
rgbToDecimal(rgb) ==
    IF rgb.t \in {"null", "undefined"} THEN Throw("TypeError")
    ELSE NumAdd(NumAdd(Num(ShiftLeft(ToInt32(rgb.r), 16)),
                       Num(ShiftLeft(ToInt32(rgb.g), 8))),
                rgb.b)

OrThrown(x, y) == IF IsThrow(x) THEN x ELSE y

\* Color.rgbToHex.
rgbToHex(rgb) == OrThrown(rgbToDecimal(rgb), decimalToHex(rgbToDecimal(rgb)))

\* Color.hexToDecimal.
hexToDecimal(hex) == OrThrown(hexToRgb(hex), rgbToDecimal(hexToRgb(hex)))

RGB_BLACK == Rgb(Num(0), Num(0), Num(0))
RGB_WHITE == Rgb(Num(255), Num(255), Num(255))

Hsv(h, s, v) == [t |-> "hsv", h |-> h, s |-> s, v |-> v]

\* Mutant of Clamp01: the value is not clamped.
Clamp01_Unclamped(x) == x

\* Math.max(0, Math.min(x, 1)).
Clamp01(x) == MathMax(Num(0), MathMin(x, Num(1)))

\* The hue after "if (h < 0) h += 360".
WrapNegative(h) == IF NumLess(h, Num(0)) THEN NumAdd(h, Num(360)) ELSE h

OneMinus(x) == NumSub(Num(1), x)

\* The switch on i: a value that is none of 1..5 takes the default, which
\* is the case 0.
SectorChannels(i, v, p, q, t) ==
    IF NumEq(i, Num(1)) THEN <<q, v, p>>
    ELSE IF NumEq(i, Num(2)) THEN <<p, v, t>>
    ELSE IF NumEq(i, Num(3)) THEN <<p, q, v>>
    ELSE IF NumEq(i, Num(4)) THEN <<t, p, v>>
    ELSE IF NumEq(i, Num(5)) THEN <<v, p, q>>
    ELSE <<v, t, p>>

\* i, f, p, q and t from h / 60, s and v.
SectorOf(h60, i, s, v) ==
    SectorChannels(i, v,
                   NumMul(v, OneMinus(s)),
                   NumMul(v, OneMinus(NumMul(s, NumSub(h60, i)))),
                   NumMul(v, OneMinus(NumMul(s, OneMinus(NumSub(h60, i))))))

FloorRgb(c) ==
    Rgb(MathFloor(NumMul(c[1], Num(255))),
        MathFloor(NumMul(c[2], Num(255))),
        MathFloor(NumMul(c[3], Num(255))))

RgbOfHue(h, s, v) ==
    FloorRgb(SectorOf(NumDiv(h, Num(60)), MathFloor(NumDiv(h, Num(60))), s, v))

\* Mutant of hsvToRgb: a negative remainder is not moved up by 360.
hsvToRgb_NoNegativeWrap(hsv) ==
    RgbOfHue(NumMod(hsv.h, Num(360)), Clamp01(hsv.s), Clamp01(hsv.v))

\* Color.hsvToRgb.
hsvToRgb(hsv) ==
    RgbOfHue(WrapNegative(NumMod(hsv.h, Num(360))), Clamp01(hsv.s), Clamp01(hsv.v))

\* f and i of rgbToHsv, by the channel that is the minimum.
HueOffset(r, g, b, x) ==
    IF NumEq(r, x) THEN NumSub(g, b)
    ELSE IF NumEq(g, x) THEN NumSub(b, r)
    ELSE NumSub(r, g)

HueSector(r, g, x) ==
    IF NumEq(r, x) THEN Num(3) ELSE IF NumEq(g, x) THEN Num(5) ELSE Num(1)

\* Mutant of HueOfRange: the remainder by 360 is not taken.
HueOfRange_NoRemainder(f, i, range) ==
    NumMul(NumSub(i, NumDiv(f, range)), Num(60))

\* ((i - (f / (v - x))) * 60) % 360.
HueOfRange(f, i, range) ==
    NumMod(NumMul(NumSub(i, NumDiv(f, range)), Num(60)), Num(360))

\* h, s and v from the three fractions, their minimum x and maximum v.
HsvOfFractions(r, g, b, x, v) ==
    IF NumEq(x, v) THEN Hsv(Num(0), Num(0), v)
    ELSE Hsv(HueOfRange(HueOffset(r, g, b, x), HueSector(r, g, x), NumSub(v, x)),
             NumDiv(NumSub(v, x), v),
             v)

HsvOfUnit(r, g, b) ==
    HsvOfFractions(r, g, b, MathMin(MathMin(r, g), b), MathMax(MathMax(r, g), b))

\* Color.rgbToHsv.
rgbToHsv(rgb) ==
    HsvOfUnit(NumDiv(rgb.r, Num(255)), NumDiv(rgb.g, Num(255)),
              NumDiv(rgb.b, Num(255)))

Mix(fraction0, c0, fraction1, c1) ==
    NumAdd(NumMul(fraction0, c0), NumMul(fraction1, c1))

\* Mutant of mixRgb: the two fractions are exchanged.
mixRgb_FractionsExchanged(rgb0, rgb1, fraction1) ==
    IF NumLessEq(fraction1, Num(0)) THEN rgb0
    ELSE IF NumGreaterEq(fraction1, Num(1)) THEN rgb1
    ELSE Rgb(Mix(fraction1, rgb0.r, OneMinus(fraction1), rgb1.r),
             Mix(fraction1, rgb0.g, OneMinus(fraction1), rgb1.g),
             Mix(fraction1, rgb0.b, OneMinus(fraction1), rgb1.b))

\* Color.mixRgb.
mixRgb(rgb0, rgb1, fraction1) ==
    IF NumLessEq(fraction1, Num(0)) THEN rgb0
    ELSE IF NumGreaterEq(fraction1, Num(1)) THEN rgb1
    ELSE Rgb(Mix(OneMinus(fraction1), rgb0.r, fraction1, rgb1.r),
             Mix(OneMinus(fraction1), rgb0.g, fraction1, rgb1.g),
             Mix(OneMinus(fraction1), rgb0.b, fraction1, rgb1.b))

(***************************************************************************)
(* class Cast                                                              *)
(***************************************************************************)

NaNToZero(n) == IF IsNaN(n) THEN Num(0) ELSE n

\* Mutant of toNumber: a NaN that arrives as a number is returned as it is.
toNumber_KeepsNaN(value) ==
    IF IsNumber(value) THEN value ELSE NaNToZero(JsNumber(value))

\* Cast.toNumber.
toNumber(value) ==
    IF IsNumber(value) THEN NaNToZero(value) ELSE NaNToZero(JsNumber(value))

\* Mutant of toBoolean: "false" is matched in lower case only.
toBoolean_CaseSensitive(value) ==
    IF value.t = "boolean" THEN value
    ELSE IF IsString(value)
    THEN (IF \/ value.s = <<>>
             \/ value.s = <<"0">>
             \/ value.s = <<"f", "a", "l", "s", "e">>
          THEN Bool(FALSE)
          ELSE Bool(TRUE))
    ELSE Bool(JsBoolean(value))

\* Cast.toBoolean.
toBoolean(value) ==
    IF value.t = "boolean" THEN value
    ELSE IF IsString(value)
    THEN (IF \/ value.s = <<>>
             \/ value.s = <<"0">>
             \/ ToLowerCase(value.s) = <<"f", "a", "l", "s", "e">>
          THEN Bool(FALSE)
          ELSE Bool(TRUE))
    ELSE Bool(JsBoolean(value))

\* Cast.toString.
toString(value) == Str(JsString(value))

BlackIfNull(color) ==
    IF color = Null THEN Rgba(Num(0), Num(0), Num(0), Num(255)) ELSE color

\* Mutant of toRgbColorObject: a string that begins with '#' is read as a
\* decimal like every other value.
toRgbColorObject_AlwaysDecimal(value) == decimalToRgb(toNumber(value))

\* Cast.toRgbColorObject.
toRgbColorObject(value) ==
    IF IsString(value) /\ Substring(value.s, 0, 1) = <<"#">>
    THEN BlackIfNull(hexToRgb(value))
    ELSE decimalToRgb(toNumber(value))

ListOfColor(color) == [t |-> "array", items |-> <<color.r, color.g, color.b>>]

\* Cast.toRgbColorList: the array [r, g, b].
toRgbColorList(value) == ListOfColor(toRgbColorObject(value))

\* Mutant of isWhiteSpace: the string is not trimmed.
isWhiteSpace_Untrimmed(val) ==
    val = Null \/ (IsString(val) /\ Len(val.s) = 0)

\* Cast.isWhiteSpace.
isWhiteSpace(val) ==
    val = Null \/ (IsString(val) /\ Len(Trim(val.s)) = 0)

\* n1 and n2 of compare after its first if / else if: a zero that came from
\* white space becomes NaN, in n1 or else in n2.
AdjustN1(v1, n1) ==
    IF NumEq(n1, Num(0)) /\ isWhiteSpace(v1) THEN NaN ELSE n1

AdjustN2(v1, v2, n1, n2) ==
    IF ~(NumEq(n1, Num(0)) /\ isWhiteSpace(v1))
       /\ NumEq(n2, Num(0)) /\ isWhiteSpace(v2)
    THEN NaN
    ELSE n2

CompareStrings(s1, s2) ==
    IF StrLess(s1, s2) THEN Num(-1)
    ELSE IF StrLess(s2, s1) THEN Num(1)
    ELSE Num(0)

CompareAdjusted(v1, v2, n1, n2) ==
    IF IsNaN(n1) \/ IsNaN(n2)
    THEN CompareStrings(ToLowerCase(JsString(v1)), ToLowerCase(JsString(v2)))
    ELSE IF \/ (NumEq(n1, Infinity) /\ NumEq(n2, Infinity))
            \/ (NumEq(n1, NegInfinity) /\ NumEq(n2, NegInfinity))
    THEN Num(0)
    ELSE NumSub(n1, n2)

CompareNumbers(v1, v2, n1, n2) ==
    CompareAdjusted(v1, v2, AdjustN1(v1, n1), AdjustN2(v1, v2, n1, n2))

\* Mutant of compare: the white-space adjustment looks at v1 only.
compare_AdjustsFirstOnly(v1, v2) ==
    CompareAdjusted(v1, v2, AdjustN1(v1, JsNumber(v1)), JsNumber(v2))

Signum(x) ==
    IF NumLess(x, Num(0)) THEN Num(-1)
    ELSE IF NumLess(Num(0), x) THEN Num(1)
    ELSE x

\* Mutant of compare: the numeric difference is clamped to its sign.
compare_Clamped(v1, v2) ==
    Signum(CompareNumbers(v1, v2, JsNumber(v1), JsNumber(v2)))

SubtractUnlessNaN(v1, v2, n1, n2) ==
    IF IsNaN(n1) \/ IsNaN(n2)
    THEN CompareStrings(ToLowerCase(JsString(v1)), ToLowerCase(JsString(v2)))
    ELSE NumSub(n1, n2)

\* Mutant of compare: no special case for the infinities.
compare_NoInfinityCase(v1, v2) ==
    SubtractUnlessNaN(v1, v2, AdjustN1(v1, JsNumber(v1)),
                      AdjustN2(v1, v2, JsNumber(v1), JsNumber(v2)))

FirstNotLowered(v1, v2, n1, n2) ==
    IF IsNaN(n1) \/ IsNaN(n2)
    THEN CompareStrings(JsString(v1), ToLowerCase(JsString(v2)))
    ELSE IF \/ (NumEq(n1, Infinity) /\ NumEq(n2, Infinity))
            \/ (NumEq(n1, NegInfinity) /\ NumEq(n2, NegInfinity))
    THEN Num(0)
    ELSE NumSub(n1, n2)

\* Mutant of compare: the string form of v1 is not lower-cased.
compare_FirstNotLowered(v1, v2) ==
    FirstNotLowered(v1, v2, AdjustN1(v1, JsNumber(v1)),
                    AdjustN2(v1, v2, JsNumber(v1), JsNumber(v2)))

\* Mutant of compare: the white-space adjustment looks at v2 only.
compare_AdjustsSecondOnly(v1, v2) ==
    CompareAdjusted(v1, v2, JsNumber(v1),
                    AdjustN2(Bool(FALSE), v2, JsNumber(v1), JsNumber(v2)))

\* Cast.compare.
compare(v1, v2) == CompareNumbers(v1, v2, JsNumber(v1), JsNumber(v2))

\* Cast.isInt.
isInt(val) ==
    IF IsNumber(val)
    THEN (IF IsNaN(val) THEN TRUE
          ELSE NumEq(val, ParseInt(JsString(val), 10)))
    ELSE IF val.t = "boolean" THEN TRUE
    ELSE IF IsString(val) THEN IndexOfAny(val.s, {"."}) = 0
    ELSE FALSE

LIST_INVALID == Str(<<"I", "N", "V", "A", "L", "I", "D">>)

LIST_ALL == Str(<<"A", "L", "L">>)

InRange(i, length) ==
    IF NumLess(i, Num(1)) \/ NumLess(length, i) THEN LIST_INVALID ELSE i

FloorIfInRange(x, length) ==
    IF NumLess(x, Num(1)) \/ NumLess(length, x) THEN LIST_INVALID ELSE MathFloor(x)

\* Mutant of the numeric path: the range is checked before the floor.
ListIndexOfNumber_RangeBeforeFloor(index, length) ==
    FloorIfInRange(toNumber(index), length)

\* The numeric path of Cast.toListIndex (its last five lines).
ListIndexOfNumber(index, length) == InRange(MathFloor(toNumber(index)), length)

\* Mutant of toListIndex: "all" is accepted whatever acceptAll says.
toListIndex_AlwaysAcceptsAll(index, length, acceptAll, random) ==
    IF ~IsNumber(index) /\ index = Str(<<"a", "l", "l">>)
    THEN LIST_ALL
    ELSE IF ~IsNumber(index) /\ index = Str(<<"l", "a", "s", "t">>)
    THEN (IF NumLess(Num(0), length) THEN length ELSE LIST_INVALID)
    ELSE IF ~IsNumber(index) /\ index \in {Str(<<"r", "a", "n", "d", "o", "m">>),
                                           Str(<<"a", "n", "y">>)}
    THEN (IF NumLess(Num(0), length)
          THEN NumAdd(Num(1), MathFloor(NumMul(random, length)))
          ELSE LIST_INVALID)
    ELSE ListIndexOfNumber(index, length)

\* Mutant of toListIndex: the random index is counted from 0.
toListIndex_RandomFromZero(index, length, acceptAll, random) ==
    IF ~IsNumber(index) /\ index = Str(<<"a", "l", "l">>)
    THEN (IF acceptAll THEN LIST_ALL ELSE LIST_INVALID)
    ELSE IF ~IsNumber(index) /\ index = Str(<<"l", "a", "s", "t">>)
    THEN (IF NumLess(Num(0), length) THEN length ELSE LIST_INVALID)
    ELSE IF ~IsNumber(index) /\ index \in {Str(<<"r", "a", "n", "d", "o", "m">>),
                                           Str(<<"a", "n", "y">>)}
    THEN (IF NumLess(Num(0), length)
          THEN MathFloor(NumMul(random, length))
          ELSE LIST_INVALID)
    ELSE ListIndexOfNumber(index, length)

\* Cast.toListIndex; random is what Math.random() returns when it is called.
toListIndex(index, length, acceptAll, random) ==
    IF ~IsNumber(index) /\ index = Str(<<"a", "l", "l">>)
    THEN (IF acceptAll THEN LIST_ALL ELSE LIST_INVALID)
    ELSE IF ~IsNumber(index) /\ index = Str(<<"l", "a", "s", "t">>)
    THEN (IF NumLess(Num(0), length) THEN length ELSE LIST_INVALID)
    ELSE IF ~IsNumber(index) /\ index \in {Str(<<"r", "a", "n", "d", "o", "m">>),
                                           Str(<<"a", "n", "y">>)}
    THEN (IF NumLess(Num(0), length)
          THEN NumAdd(Num(1), MathFloor(NumMul(random, length)))
          ELSE LIST_INVALID)
    ELSE ListIndexOfNumber(index, length)

(***************************************************************************)
(* class Scratch3CanvasBlocks (src/unnamed/part_001)                       *)
(*                                                                         *)
(* The instance, with the part of the runtime it works on, is the record   *)
(* canvas:                                                                 *)
(*   penSkin         runtime.penSkinId is defined                          *)
(*   ctx             the canvas whose 2d context is this._ctx (and which   *)
(*                   is this._canvas); canvases are numbered from 1 in the *)
(*                   order of their creation, 0 stands for no canvas       *)
(*   canvasList      this._canvasList: the canvas under every key used,    *)
(*                   0 for null                                            *)
(*   canvases        the number of canvases created so far                 *)
(*   drawn           the canvases a painting command was issued on         *)
(*   bitmapSkins     the canvases renderer.createBitmapSkin was called     *)
(*                   with, in the order of the calls                       *)
(*   drawables       the number of calls of renderer.createDrawable        *)
(*   stamped         renderer.penStamp has been called                     *)
(*   bufferedImages  the keys of this._bufferedImages                      *)
(*   imageDraws      the image ids ctx.drawImage was called with           *)
(*   lastSwitch      the key the most recent call of switchCanvas computed *)
(*                   (0 when there was none)                               *)
(***************************************************************************)

\* The key Math.min(Math.max(0, Cast.toNumber(value)), 7).
SlotOf(value) == MathMin(MathMax(Num(0), toNumber(value)), Num(7))

\* The values the NUMBER of switchCanvas is drawn from.
SlotArgs ==
    {Num(-1), Num(0), Num(1), Rat(3, 2), Num(7), Num(9), NaN, Infinity,
     Str(<<"2">>), Str(<<"a", "b", "c">>)}

\* An asset id: a string of twelve characters.
ImageId(c) == Str(<<c, c, c, c, c, c, c, c, ".", "p", "n", "g">>)

\* The image ids that are fetched.
ImageIds == {ImageId("a"), ImageId("b")}

\* Names every object literal answers to without having them as its own
\* properties: they are inherited from Object.prototype (some of them).
ObjectPrototypeKeys ==
    {Str(<<"c", "o", "n", "s", "t", "r", "u", "c", "t", "o", "r">>),
     Str(<<"t", "o", "S", "t", "r", "i", "n", "g">>),
     Str(<<"v", "a", "l", "u", "e", "O", "f">>)}

\* The values the IMAGE_ID of loadImage is drawn from.
LoadArgs == ImageIds \cup {k \in ObjectPrototypeKeys : Len(k.s) > 10}

\* The values the IMAGE_ID of drawImage is drawn from.
DrawArgs == SlotArgs \cup LoadArgs

\* The keys of this._canvasList that the calls drawn can use.
SlotKeys == {SlotOf(a) : a \in DrawArgs}

\* for (var i = 0; i < 8; i++) this._canvasList.push(null): no key has a
\* canvas.
NoCanvases == [k \in SlotKeys |-> 0]

\* The instance after the constructor, in a runtime without a pen skin.
NewCanvasBlocks ==
    [penSkin |-> FALSE, ctx |-> 0, canvasList |-> NoCanvases, canvases |-> 0,
     drawn |-> {}, bitmapSkins |-> <<>>, drawables |-> 0, stamped |-> FALSE,
     bufferedImages |-> {}, imageDraws |-> {}, lastSwitch |-> Num(0)]

\* The first part of _getContext, when this._ctx is not set: nothing but a
\* fresh list when _createCanvas returns null; else the canvas of key 0,
\* which becomes the current one, a second canvas for the bitmap skin, and
\* the drawable.
Initialised(c) ==
    IF ~c.penSkin THEN [c EXCEPT !.canvasList = NoCanvases]
    ELSE [c EXCEPT !.canvasList = [NoCanvases EXCEPT ![Num(0)] = c.canvases + 1],
                   !.ctx = c.canvases + 1,
                   !.bufferedImages = {},
                   !.canvases = c.canvases + 2,
                   !.bitmapSkins = Append(c.bitmapSkins, c.canvases + 2),
                   !.drawables = c.drawables + 1]

Ensured(c) == IF c.ctx = 0 THEN Initialised(c) ELSE c

\* Selected, were a canvas created at every selection.
Selected_AlwaysCreates(c, idx) ==
    [c EXCEPT !.canvasList[idx] = c.canvases + 1,
              !.ctx = c.canvases + 1,
              !.canvases = c.canvases + 1]

\* The second part of _getContext, for an index: the canvas under the key,
\* created when there is none, becomes the current one.
Selected(c, idx) ==
    IF c.canvasList[idx] # 0 THEN [c EXCEPT !.ctx = c.canvasList[idx]]
    ELSE [c EXCEPT !.canvasList[idx] = c.canvases + 1,
                   !.ctx = c.canvases + 1,
                   !.canvases = c.canvases + 1]

SelectedIfIndex(c, idx) ==
    IF c.ctx = 0 \/ idx.t \in {"null", "undefined"} THEN c ELSE Selected(c, idx)

\* Scratch3CanvasBlocks._getContext: the instance after the call; what the
\* call returns is the ctx of that instance (0: null).
GetContext(c, idx) == SelectedIfIndex(Ensured(c), idx)

\* The blocks that get the context and change its path, style or transform.
StateBlocks ==
    {"beginPath", "closePath", "moveTo", "lineTo", "rect", "arc", "clip",
     "setLineWidth", "setLineCap", "setStrokeStyle", "setFillStyle",
     "setFont", "measureText", "scale", "rotate", "translate", "transform",
     "clearTransform", "save", "restore", "setGlobalAlpha",
     "setGlobalCompositeOperation"}

\* The blocks that get the context and paint on its canvas.
PaintBlocks == {"stroke", "fill", "strokeText", "fillText", "clearRect"}

\* A painting command issued on the current canvas, when there is one.
Painted(c) == IF c.ctx = 0 THEN c ELSE [c EXCEPT !.drawn = @ \cup {c.ctx}]

\* this._bufferedImages[imageId] is truthy: the object holds an image under
\* the id, or inherits a property of that name.
Buffered(c, imageId) == imageId \in c.bufferedImages \/ imageId \in ObjectPrototypeKeys

\* drawImage with an id of more than ten characters: the buffered image of
\* that id, when there is one, is drawn; nothing is drawn without one, and
\* nothing when an inherited property is found in its place (ctx.drawImage
\* throws a TypeError for what is not an image).
ImageDrawn(c, imageId) ==
    IF imageId \in c.bufferedImages
    THEN [c EXCEPT !.drawn = @ \cup {c.ctx}, !.imageDraws = @ \cup {imageId}]
    ELSE c

\* drawImage with a shorter id: the canvas under the key, when there is
\* one, is drawn.
CanvasDrawn(c, idx) ==
    IF c.canvasList[idx] # 0 THEN [c EXCEPT !.drawn = @ \cup {c.ctx}] ELSE c

DrawnOn(c, value) ==
    IF c.ctx = 0 THEN c
    ELSE IF Len(toString(value).s) > 10 THEN ImageDrawn(c, toString(value))
    ELSE CanvasDrawn(c, SlotOf(value))

\* Scratch3CanvasBlocks.drawImage.
drawImage(c, value) == DrawnOn(GetContext(c, Undefined), value)

\* Scratch3CanvasBlocks.switchCanvas.
switchCanvas(c, value) == GetContext(c, SlotOf(value))

\* Scratch3CanvasBlocks.stampOnStage.
stampOnStage(c) ==
    IF GetContext(c, Undefined).ctx = 0 THEN GetContext(c, Undefined)
    ELSE [GetContext(c, Undefined) EXCEPT !.stamped = TRUE]

(***************************************************************************)
(* The image loads of Scratch3CanvasBlocks.loadImage                       *)
(*                                                                         *)
(* The images being fetched, the promises loadImage returned and the       *)
(* BlobAccess log requests are the record loads:                           *)
(*   fetching         for every image id, the images whose src is set and  *)
(*                    that have fired neither onload nor onerror           *)
(*   pending          for every image id, the promises not yet resolved    *)
(*   totalLoadedSize  this._totalLoadedSize: undefined or a number         *)
(*   logRequests      the deltaSize of every log request in flight         *)
(*   fetches          the number of fetches started                        *)
(*   loadedImages     the number of images that fired onload               *)
(*   loadedIds        the image ids of the images that fired onload        *)
(*   reportedSize     the sum of deltaSize over the log requests that      *)
(*                    succeeded                                            *)
(***************************************************************************)

\* 128 * 1024: what a loaded image adds to this._totalLoadedSize.
LoadedImageSize == 128 * 1024

\* 2 * 1024 * 1024: the size from which a log request is sent.
LogThreshold == 2 * 1024 * 1024

NewLoads ==
    [fetching |-> [id \in ImageIds |-> 0], pending |-> [id \in ImageIds |-> 0],
     totalLoadedSize |-> Undefined, logRequests |-> <<>>, fetches |-> 0,
     loadedImages |-> 0, loadedIds |-> {}, reportedSize |-> 0]

\* loadImage past its two returns: a new image is fetched and a promise is
\* returned.
FetchStarted(l, imageId) ==
    [l EXCEPT !.fetching[imageId] = @ + 1,
              !.pending[imageId] = @ + 1,
              !.fetches = @ + 1]

\* if (self._totalLoadedSize == null) self._totalLoadedSize = 0;
\* self._totalLoadedSize += 128 * 1024.
SizeAdded(total) ==
    IF total.t \in {"null", "undefined"} THEN Num(LoadedImageSize)
    ELSE NumAdd(total, Num(LoadedImageSize))

\* The log request of img.onload, sent when the size has reached the
\* threshold, with the size as its deltaSize.
LogSent(l) ==
    IF NumGreaterEq(l.totalLoadedSize, Num(LogThreshold))
    THEN [l EXCEPT !.logRequests = Append(@, l.totalLoadedSize)]
    ELSE l

\* img.onload of loadImage, on the loads (the image is buffered by the
\* action): the size grows, the log request is sent, the promise resolves.
Loaded(l, imageId) ==
    LogSent([l EXCEPT !.fetching[imageId] = @ - 1,
                      !.totalLoadedSize = SizeAdded(@),
                      !.loadedImages = @ + 1,
                      !.loadedIds = @ \cup {imageId},
                      !.pending[imageId] = @ - 1])

\* Failed, were the promise left pending.
Failed_PromisePending(l, imageId) == [l EXCEPT !.fetching[imageId] = @ - 1]

\* img.onerror of loadImage: the promise resolves.
Failed(l, imageId) ==
    [l EXCEPT !.fetching[imageId] = @ - 1, !.pending[imageId] = @ - 1]

\* The sequence without its i-th element.
Without(s, i) == SubSeq(s, 1, i - 1) \o SubSeq(s, i + 1, Len(s))

\* .done of the log request: the size is set to 0.
LogSucceeded(l, i) ==
    [l EXCEPT !.logRequests = Without(@, i),
              !.totalLoadedSize = Num(0),
              !.reportedSize = @ + l.logRequests[i].n]

\* .error of the log request: nothing is done.
LogFailed(l, i) == [l EXCEPT !.logRequests = Without(@, i)]

(***************************************************************************)
(* class Scratch3StringExtBlocks (src/string_ext.js): the JSON values, and *)
(* the posts.                                                              *)
(*                                                                         *)
(* A JSON value is null, a boolean, a number, a string, an array (items)   *)
(* or an object: the sequence of its <<key, value>> entries, in the order  *)
(* of the text. JSON.parse is a builtin: the texts the blocks are called   *)
(* with are drawn together with what JSON.parse makes of them.             *)
(*                                                                         *)
(* The posts of one instance are the record                                *)
(*   postResponse  this._postResponse (undefined until it is written)      *)
(*   requests      the requests sent by postJson, in the order sent, each  *)
(*                 with its url and data, its state (sent, done, error),   *)
(*                 the outcome it completed with, and the state of the     *)
(*                 promise postJson returned for it with the number of     *)
(*                 times resolve() was called                              *)
(*   last          the block or callback that ran last, with its inputs    *)
(*                 (and, for postJson, this._postResponse before it)       *)
(***************************************************************************)
Arr(items) == [t |-> "array", items |-> items]
Obj(entries) == [t |-> "object", entries |-> entries]

\* A function inherited from Object.prototype under the name key.
Inherited(key) == [t |-> "function", name |-> key]

\* The texts and what JSON.parse returns for them, or throws.
JsonTexts ==
    {[text |-> Str(<<>>), value |-> Throw("SyntaxError")],
     [text |-> Str(<<"{">>), value |-> Throw("SyntaxError")],
     [text |-> Str(<<"a", "b", "c">>), value |-> Throw("SyntaxError")],
     [text |-> Str(<<"n", "u", "l", "l">>), value |-> Null],
     [text |-> Str(<<"f", "a", "l", "s", "e">>), value |-> Bool(FALSE)],
     [text |-> Str(<<"0">>), value |-> Num(0)],
     [text |-> Str(<<"\"", "\"">>), value |-> Str(<<>>)],
     [text |-> Str(<<"5">>), value |-> Num(5)],
     [text |-> Str(<<"\"", "a", "b", "\"">>), value |-> Str(<<"a", "b">>)],
     [text |-> Str(<<"[", "7", "]">>), value |-> Arr(<<Num(7)>>)],
     [text |-> Str(<<"{", "}">>), value |-> Obj(<<>>)],
     [text |-> Str(<<"{", "\"", "x", "\"", ":", "1", ",", "\"", "l", "\"",
             ":", "[", "1", ",", "n", "u", "l", "l", "]", ",", "\"", "n",
                     "\"", ":", "n", "u", "l", "l", ",", "\"", "s", "\"",
                             ":", "\"", "v", "\"", "}">>),
      value |-> Obj(<< <<<<"x">>, Num(1)>>, <<<<"l">>, Arr(<<Num(1), Null>>)>>,
                       <<<<"n">>, Null>>, <<<<"s">>, Str(<<"v">>)>> >>)]}

\* JSON.parse(text), for a text drawn.
JsonParse(text) == (CHOOSE e \in JsonTexts : e.text = text).value

\* The texts the JSON of postJson is drawn from.
PostTexts == {Str(<<"{">>), Str(<<"{", "}">>)}

\* The names the URL of postJson is drawn from.
UrlNames ==
    {Str(<<"c", "l", "o", "u", "d", "S", "p", "a", "c", "e">>),
     Str(<<" ", "c", "l", "o", "u", "d", "S", "p", "a", "c", "e", " ">>),
     Str(<<"o", "t", "h", "e", "r">>),
     Str(<<"c", "o", "n", "s", "t", "r", "u", "c", "t", "o", "r">>)}

\* urlMap[url] of postJson: the path of the one name the map has, or what
\* the object literal inherits under the name.
CLOUD_SPACE == <<"c", "l", "o", "u", "d", "S", "p", "a", "c", "e">>

CLOUD_SPACE_URL ==
    <<"/", "W", "e", "b", "A", "p", "i", "/", "P", "r", "o", "j", "e", "c", "t", "s",
      "/", "C", "l", "o", "u", "d", "S", "p", "a", "c", "e">>

UrlMap(name) ==
    IF name = CLOUD_SPACE THEN Str(CLOUD_SPACE_URL)
    ELSE IF Str(name) \in ObjectPrototypeKeys THEN Inherited(name)
    ELSE Undefined

\* The responses of postJson to a call it rejects.
ErrorResponse(message) == Obj(<< <<<<"e", "r", "r", "o", "r">>, Str(message)>> >>)

INVALID_URL == ErrorResponse(<<"i", "n", "v", "a", "l", "i", "d", " ", "u", "r", "l">>)

INVALID_JSON == ErrorResponse(<<"i", "n", "v", "a", "l", "i", "d", " ", "j", "s", "o", "n">>)

UNEXPECTED_ERROR ==
    ErrorResponse(<<"u", "n", "e", "x", "p", "e", "c", "t", "e", "d", " ", "e", "r", "r", "o", "r">>)

\* What the server answers a request that succeeds with.
ServerResponses == {Obj(<< <<<<"c", "o", "d", "e">>, Num(0)>> >>),
        Str(<<"o", "k">>)}

NewStringExt == [postResponse |-> Undefined, requests |-> <<>>, last |-> [kind |-> "new"]]

\* The request extUtils.ajax sends, and the promise returned for it.
Request(url, data) ==
    [url |-> url, data |-> data, state |-> "sent", outcome |-> Undefined,
     promise |-> "pending", resolutions |-> 0]

\* postJson behind the check of the url: the JSON is parsed, and sent.
PostedJson(p, url, data) ==
    IF data.t = "throw" THEN [p EXCEPT !.postResponse = INVALID_JSON]
    ELSE [p EXCEPT !.requests = Append(@, Request(url, data))]

\* postJson behind detectAbnormalAction: the url is looked up.
PostedTo(p, url, jsonStr) ==
    IF url.t = "undefined" THEN [p EXCEPT !.postResponse = INVALID_URL]
    ELSE PostedJson(p, url, JsonParse(jsonStr))

\* Scratch3StringExtBlocks.postJson: the posts after the call.
postJson(p, abnormal, URL, JSON) ==
    IF abnormal THEN p
    ELSE PostedTo(p, UrlMap(Trim(toString(URL).s)), toString(JSON))

\* resolve() of the promise of a request.
Resolved(request) ==
    [request EXCEPT !.promise = "resolved", !.resolutions = @ + 1]

\* The done callback of request i, with the response r.
Succeeded(p, i, r) ==
    [p EXCEPT !.postResponse = r,
              !.requests[i] = Resolved([@ EXCEPT !.state = "done", !.outcome = r])]

\* Errored, were resolve() not called.
Errored_PromisePending(p, i) ==
    [p EXCEPT !.postResponse = UNEXPECTED_ERROR,
              !.requests[i] = [@ EXCEPT !.state = "error",
                                        !.outcome = UNEXPECTED_ERROR]]

\* The error callback of request i.
Errored(p, i) ==
    [p EXCEPT !.postResponse = UNEXPECTED_ERROR,
              !.requests[i] = Resolved([@ EXCEPT !.state = "error",
                                                 !.outcome = UNEXPECTED_ERROR])]

\* JSON.stringify of a string: quoted, quotes and backslashes escaped.
EscapedChar(c) == IF c \in {"\"", "\\"} THEN <<"\\", c>> ELSE <<c>>

RECURSIVE Escaped(_)
Escaped(s) == IF s = <<>> THEN <<>> ELSE EscapedChar(Head(s)) \o Escaped(Tail(s))

Quoted(s) == <<"\"">> \o Escaped(s) \o <<"\"">>

\* JSON.stringify(value): the text, or undefined for undefined.
RECURSIVE StringifiedItems(_, _)
RECURSIVE StringifiedEntries(_, _)
RECURSIVE Stringified(_)
Stringified(v) ==
    CASE v.t = "string" -> Quoted(v.s)
      [] v.t = "number" -> IF v.k = "fin" THEN NumberToString(v, 10) ELSE <<"n", "u", "l", "l">>
      [] v.t = "boolean" -> JsString(v)
      [] v.t \in {"null", "undefined", "function"} -> <<"n", "u", "l", "l">>
      [] v.t = "array" -> <<"[">> \o StringifiedItems(v.items, 1) \o <<"]">>
      [] v.t = "object" -> <<"{">> \o StringifiedEntries(v.entries, 1) \o <<"}">>

StringifiedItems(items, i) ==
    IF i > Len(items) THEN <<>>
    ELSE (IF i > 1 THEN <<",">> ELSE <<>>)
         \o Stringified(items[i]) \o StringifiedItems(items, i + 1)

StringifiedEntries(entries, i) ==
    IF i > Len(entries) THEN <<>>
    ELSE (IF i > 1 THEN <<",">> ELSE <<>>)
         \o Quoted(entries[i][1]) \o <<":">> \o Stringified(entries[i][2])
         \o StringifiedEntries(entries, i + 1)

JsonStringify(v) ==
    IF v.t \in {"undefined",
            "function"} THEN Undefined ELSE Str(Stringified(v))

\* Scratch3StringExtBlocks.postResponse.
postResponse(p) == JsonStringify(p.postResponse)

(***************************************************************************)
(* The variables of the target, and deserializeFromJson. A variable is its *)
(* name, type and value (class Variable); the target is the record         *)
(*   variables  util.target.variables, in the order of the for-in loop     *)
(*   last       the call of deserializeFromJson that ran last: its PREFIX  *)
(*              and JSON and the variables before it                       *)
(***************************************************************************)
SCALAR_TYPE == ""
LIST_TYPE == "list"
BROADCAST_MESSAGE_TYPE == "broadcast_msg"

\* new Variable(id, name, type, isCloud).
NewVariable(name, type) ==
    [name |-> name, type |-> type,
     value |-> IF type = SCALAR_TYPE THEN Num(0)
               ELSE IF type = LIST_TYPE THEN Arr(<<>>)
               ELSE Str(name)]

\* The variables of the target the block runs on.
TargetVariables ==
    <<NewVariable(<<"p", "_", "x">>, SCALAR_TYPE),
      NewVariable(<<"p", "_", "x">>, BROADCAST_MESSAGE_TYPE),
      NewVariable(<<"p", "_", "l">>, LIST_TYPE),
      NewVariable(<<"p", "_", "l">>, SCALAR_TYPE),
      NewVariable(<<"p", "_", "s">>, LIST_TYPE),
      NewVariable(<<"p", "_", "n">>, SCALAR_TYPE),
      NewVariable(<<"x">>, SCALAR_TYPE),
      NewVariable(<<"p", "_", "t", "o", "S", "t", "r", "i", "n", "g">>,
              SCALAR_TYPE),
      NewVariable(<<"l", "e", "n", "g", "t", "h">>, SCALAR_TYPE),
      NewVariable(<<"k", "0">>, LIST_TYPE)>>

NewTarget == [variables |-> TargetVariables, last |-> [kind |-> "new"]]

\* The values the PREFIX of deserializeFromJson is drawn from.
Prefixes == {Str(<<"p", "_">>), Str(<<" ", "p", "_", " ">>), Str(<<>>),
        Str(<<"k">>), Num(0)}

\* !value is false: an object, an array, or a primitive Boolean() takes
\* for true.
JsTruthy(v) == IF v.t \in {"object", "array",
        "function"} THEN TRUE ELSE JsBoolean(v)

\* name.indexOf(prefix) == 0.
StartsWith(name, prefix) ==
    Len(prefix) <= Len(name) /\ SubSeq(name, 1, Len(prefix)) = prefix

\* name.substr(start).
Substr(name, start) == SubSeq(name, start + 1, Len(name))

\* The value of the last entry of an object under the key, or undefined.
RECURSIVE OwnProperty(_, _, _)
OwnProperty(entries, key, i) ==
    IF i = 0 THEN Undefined
    ELSE IF entries[i][1] = key THEN entries[i][2]
    ELSE OwnProperty(entries, key, i - 1)

HasOwnProperty(entries, key) == \E i \in 1..Len(entries) : entries[i][1] = key

\* What a value inherits under the key (of Object.prototype).
InheritedProperty(key) ==
    IF Str(key) \in ObjectPrototypeKeys THEN Inherited(key) ELSE Undefined

\* The positions of a sequence whose index, as a string, is the key.
IndexOfKey(length, key) == {i \in 1..length : NumberToString(Num(i - 1), 10) = key}

\* An element of an array or a character of a string under the key, its
\* length, or what it inherits.
IndexedProperty(items, positions, key) ==
    IF positions # {} THEN items[CHOOSE i \in positions : TRUE]
    ELSE IF key = <<"l", "e", "n", "g", "t", "h">> THEN Num(Len(items))
    ELSE InheritedProperty(key)

CharsOf(s) == [i \in 1..Len(s) |-> Str(<<s[i]>>)]

\* value[key].
GetProperty(value, key) ==
    CASE value.t = "object" ->
            IF HasOwnProperty(value.entries, key)
            THEN OwnProperty(value.entries, key, Len(value.entries))
            ELSE InheritedProperty(key)
      [] value.t = "array" ->
            IndexedProperty(value.items, IndexOfKey(Len(value.items), key), key)
      [] value.t = "string" ->
            IndexedProperty(CharsOf(value.s), IndexOfKey(Len(value.s), key), key)
      [] OTHER -> InheritedProperty(key)

\* String(value), of the values JSON.parse and a lookup produce.
RECURSIVE Joined(_, _)
RECURSIVE StringOf(_)
StringOf(v) ==
    CASE v.t = "array" -> Joined(v.items, 1)
      [] v.t = "object" ->
            <<"[", "o", "b", "j", "e", "c", "t", " ", "O", "b", "j", "e", "c", "t", "]">>
      [] v.t = "function" ->
            <<"f", "u", "n", "c", "t", "i", "o", "n", " ">> \o v.name
            \o <<"(", ")", " ", "{", " ", "[", "n", "a", "t", "i", "v", "e", " ",
                 "c", "o", "d", "e", "]", " ", "}">>
      [] OTHER -> JsString(v)

\* Array.prototype.join: null and undefined give the empty string.
Joined(items, i) ==
    IF i > Len(items) THEN <<>>
    ELSE (IF i > 1 THEN <<",">> ELSE <<>>)
         \o (IF items[i].t \in {"null",
                 "undefined"} THEN <<>> ELSE StringOf(items[i]))
         \o Joined(items, i + 1)

\* The loop over the elements of a list value: null becomes ''.
NullsBlanked(items) ==
    [i \in 1..Len(items) |->
        IF items[i].t \in {"null", "undefined"} THEN Str(<<>>) ELSE items[i]]

\* The value looked up for a variable: null unless its name begins with
\* the prefix.
VarValue(variable, prefix, jsonObj) ==
    IF StartsWith(variable.name, prefix)
    THEN GetProperty(jsonObj, Substr(variable.name, Len(prefix)))
    ELSE Null

\* One turn of the loop.
Assigned(variable, varValue) ==
    IF varValue.t \in {"null", "undefined"} THEN variable
    ELSE IF variable.type = LIST_TYPE /\ varValue.t = "array"
    THEN [variable EXCEPT !.value = Arr(NullsBlanked(varValue.items))]
    ELSE IF variable.type = SCALAR_TYPE
    THEN [variable EXCEPT !.value = Str(StringOf(varValue))]
    ELSE variable

Deserialized(variables, prefix, jsonObj) ==
    IF jsonObj.t = "throw" \/ ~JsTruthy(jsonObj) THEN variables
    ELSE [i \in 1..Len(variables) |->
            Assigned(variables[i], VarValue(variables[i], prefix, jsonObj))]

\* Scratch3StringExtBlocks.deserializeFromJson: the variables after the call.
deserializeFromJson(variables, PREFIX, JSON) ==
    Deserialized(variables, Trim(toString(PREFIX).s), JsonParse(JSON))

(***************************************************************************)
(* The inputs of the calls                                                 *)
(***************************************************************************)

\* The longest generated string.
MaxStrLen == 3

\* The longest list whose index is resolved.
MaxLength == 5

\* Every string over these characters up to MaxStrLen is an input.
GenAlphabet == {"0", "1", "f", "A", "#", ".", "-", " "}

RECURSIVE StringsUpTo(_)
StringsUpTo(n) ==
    IF n = 0 THEN {<<>>}
    ELSE LET shorter == StringsUpTo(n - 1)
         IN  shorter \cup {Append(s, c) : s \in shorter, c \in GenAlphabet}

GeneratedStrings == StringsUpTo(MaxStrLen)

\* Strings chosen for the cases of the number grammar, of the comparison and
\* of the keywords.
TextSamples ==
    {<<>>, <<" ">>, <<" ", " ">>, <<"\t">>, <<" ", "\n">>, <<"0">>,
     <<"0", "0">>, <<"5">>, <<"4", "2">>, <<" ", "4", "2", " ">>,
     <<"-", "1">>, <<"+", "5">>, <<"3", ".", "9">>, <<"1", ".", "0">>,
     <<"0", ".", "0">>, <<".", "5">>, <<"1", ".">>, <<".">>, <<"-">>,
     <<"1", "e", "5">>, <<"1", "E", "2">>, <<"1", "e", "-", "1">>,
     <<"1", "e">>, <<"e", "5">>, <<"0", "x", "1", "0">>,
     <<"0", "x", "F", "F">>, <<"0", "x">>, <<"-", "0", "x", "1", "0">>,
     <<"0", "b", "1", "1">>, <<"0", "o", "1", "7">>,
     <<"I", "n", "f", "i", "n", "i", "t", "y">>,
     <<"-", "I", "n", "f", "i", "n", "i", "t", "y">>,
     <<"+", "I", "n", "f", "i", "n", "i", "t", "y">>,
     <<"i", "n", "f", "i", "n", "i", "t", "y">>, <<"N", "a", "N">>,
     <<"a", "b", "c">>, <<"A", "B", "C">>, <<"A", "b", "c">>,
     <<"a", "b", "d">>, <<"a", "b">>, <<"a">>, <<"B">>,
     <<"t", "r", "u", "e">>, <<"f", "a", "l", "s", "e">>,
     <<"F", "A", "L", "S", "E">>, <<"F", "a", "l", "s", "e">>,
     <<"n", "o">>, <<"n", "u", "l", "l">>,
     <<"u", "n", "d", "e", "f", "i", "n", "e", "d">>, <<"a", "l", "l">>,
     <<"A", "L", "L">>, <<"l", "a", "s", "t">>,
     <<"r", "a", "n", "d", "o", "m">>, <<"a", "n", "y">>,
     <<"I", "N", "V", "A", "L", "I", "D">>, <<"1", "_", "0">>,
     <<"1", "2", "p", "x">>, <<"4", " ", "2">>, <<"1", "0">>, <<"1", "a">>,
     <<"2">>}

\* Strings chosen for the cases of the hex colour patterns.
HexSamples ==
    {<<"#", "f", "f", "f">>, <<"#", "F", "F", "F">>, <<"f", "f", "f">>,
     <<"#", "0", "a", "3">>, <<"#", "0", "0", "3", "3", "f", "f">>,
     <<"#", "0", "0", "3", "3", "F", "F">>,
     <<"0", "0", "3", "3", "f", "f">>,
     <<"#", "f", "f", "0", "0", "0", "0">>,
     <<"#", "F", "F", "0", "0", "0", "0">>,
     <<"#", "0", "0", "0", "0", "0", "0">>,
     <<"#", "0", "0", "0", "0", "0">>,
     <<"#", "0", "0", "0", "0", "0", "0", "0">>, <<"#", "1", "2">>,
     <<"#", "g", "g", "g">>, <<"#", "g", "g", "g", "g", "g", "g">>,
     <<"#", "#", "f", "f", "f">>, <<"#", "f", "f", "f", " ">>,
     <<" ", "#", "f", "f", "f">>, <<"#">>, <<"#", "f">>,
     <<"#", "f", "f", "f", "f">>, <<"#", "f", "f", "f", "f", "f">>,
     <<"z", "z", "z">>, <<"#", "-", "1", "2", "3", "4", "5">>,
     <<"#", "0", "x", "1", "2", "3", "4">>,
     <<"f", "f", "f", "f", "f", "f">>,
     <<"#", "a", "1", "B", "2", "c", "3">>}

NumberSamples ==
    {Num(0), Num(1), Num(-1), Num(2), Num(3), Num(5), Num(6), Num(42), Num(255),
     Num(100000), Num(16777215), Rat(39, 10), Rat(1, 2), Rat(-5, 2), Rat(-1, 2),
     Rat(51, 10), NaN, Infinity, NegInfinity}

\* Decimal colours: around the byte borders, with and without alpha bits,
\* negative, and at the ends of the 32-bit range.
DecimalSamples ==
    {Num(i) : i \in {0, 1, 15, 16, 255, 256, 4095, 65535, 65536, 1193046,
                     16777215, 16777216, 16777217, 33554431, 2130706432,
                     2147483647, -1, -2, -255, -256, -16777215, -16777216,
                     -16777217, -2147483647, -2147483647 - 1}}
    \cup {Num(a * 16777216 + r * 65536 + g * 256 + b) :
              a \in {-128, -1, 0, 1, 127}, r \in {0, 18, 255},
              g \in {0, 52, 255}, b \in {0, 86, 255}}

\* The values of one colour channel that are drawn.
ChannelSamples == {0, 1, 15, 16, 127, 128, 254, 255}

RgbSamples ==
    {Rgb(Num(r), Num(g), Num(b)) :
        r \in ChannelSamples, g \in ChannelSamples, b \in ChannelSamples}

\* The hues drawn: the multiples of 15 from -390 to 750, one hue between
\* two of them, NaN and the infinities.  A multiple of 15 divided by 60 is a
\* multiple of 1/4, which a double holds exactly.
HueSamples ==
    {Num(15 * k) : k \in -26..50}
    \cup {Rat(15, 2), Rat(-15, 2), NaN, Infinity, NegInfinity}

\* The saturations, values and mixing fractions drawn: inside [0, 1], at
\* its bounds and outside it.
UnitSamples ==
    {Rat(-1, 2), Num(0), Rat(1, 4), Rat(1, 2), Rat(3, 4), Num(1), Rat(3, 2),
     NaN, Infinity, NegInfinity}

HsvSamples == {Hsv(h, s, v) : h \in HueSamples, s \in UnitSamples, v \in UnitSamples}

\* The colours mixRgb is called with.
MixSamples ==
    {RGB_BLACK, RGB_WHITE, Rgb(Num(255), Num(0), Num(0)),
     Rgb(Num(18), Num(52), Num(86)), Rgba(Num(0), Num(0), Num(255), Num(128))}

\* The numbers from 1e21 on that isInt is called with.
LargeNumbers == {ExpNumber(m, e) : m \in {1, -1, 5}, e \in {21, 22}}

Strings(set) == {Str(s) : s \in set}

OtherSamples == {Bool(TRUE), Bool(FALSE), Null, Undefined}

\* The dynamic values the one-argument functions of Cast are called with.
Values ==
    NumberSamples \cup OtherSamples
    \cup Strings(TextSamples \cup HexSamples \cup GeneratedStrings)

\* The values compare, and toListIndex as its index, are called with.
PairValues == NumberSamples \cup OtherSamples \cup Strings(TextSamples)

HexStrings == Strings(TextSamples \cup HexSamples \cup GeneratedStrings)

\* What Math.random() may return: the model draws the multiples of
\* 1 / (2 * MaxLength) in [0, 1).
RandomUnit == {Rat(k, 2 * MaxLength) : k \in 0..(2 * MaxLength - 1)}

Lengths == {Num(n) : n \in 0..MaxLength}

Call(op, args) == [op |-> op, args |-> args]

(***************************************************************************)
(* The state machine: one call                                             *)
(***************************************************************************)

Init ==
    /\ pc = "call"
    /\ result = Pending
    /\ canvas = NewCanvasBlocks
    /\ loads = NewLoads
    /\ post = NewStringExt
    /\ target = NewTarget
    /\ \/ \E op \in {"toNumber", "toBoolean", "toString", "toRgbColorObject",
                     "toRgbColorList", "isWhiteSpace", "isInt"} :
             \E v \in Values : call = Call(op, <<v>>)
       \/ \E v \in LargeNumbers : call = Call("isInt", <<v>>)
       \/ \E v1 \in PairValues, v2 \in PairValues : call = Call("compare", <<v1, v2>>)
       \/ \E index \in PairValues, length \in Lengths, acceptAll \in BOOLEAN :
             call = Call("toListIndex", <<index, length, Bool(acceptAll)>>)
       \/ \E op \in {"hexToRgb", "hexToDecimal"} :
             \E hex \in HexStrings : call = Call(op, <<hex>>)
       \/ \E op \in {"rgbToDecimal", "rgbToHex"} :
             \E rgb \in RgbSamples : call = Call(op, <<rgb>>)
       \/ \E op \in {"decimalToRgb", "decimalToHex"} :
             \E decimal \in DecimalSamples : call = Call(op, <<decimal>>)
       \/ \E hsv \in HsvSamples : call = Call("hsvToRgb", <<hsv>>)
       \/ \E rgb \in RgbSamples : call = Call("rgbToHsv", <<rgb>>)
       \/ \E rgb0 \in MixSamples, rgb1 \in MixSamples, fraction1 \in UnitSamples :
             call = Call("mixRgb", <<rgb0, rgb1, fraction1>>)

\* The call of op returns (or throws) r.
Return(op, r) ==
    /\ pc = "call"
    /\ call.op = op
    /\ result' = r
    /\ pc' = "done"
    /\ UNCHANGED <<call, canvas, loads, post, target>>

CallToNumber == Return("toNumber", toNumber(call.args[1]))

CallToBoolean == Return("toBoolean", toBoolean(call.args[1]))

CallToString == Return("toString", toString(call.args[1]))

CallToRgbColorObject == Return("toRgbColorObject", toRgbColorObject(call.args[1]))

CallToRgbColorList == Return("toRgbColorList", toRgbColorList(call.args[1]))

CallIsWhiteSpace == Return("isWhiteSpace", Bool(isWhiteSpace(call.args[1])))

CallIsInt == Return("isInt", Bool(isInt(call.args[1])))

CallCompare == Return("compare", compare(call.args[1], call.args[2]))

\* Math.random() is drawn when the call runs.
CallToListIndex ==
    \E random \in RandomUnit :
        Return("toListIndex",
               toListIndex(call.args[1], call.args[2], call.args[3].b, random))

CallHexToRgb == Return("hexToRgb", hexToRgb(call.args[1]))

CallHexToDecimal == Return("hexToDecimal", hexToDecimal(call.args[1]))

CallRgbToDecimal == Return("rgbToDecimal", rgbToDecimal(call.args[1]))

CallRgbToHex == Return("rgbToHex", rgbToHex(call.args[1]))

CallDecimalToRgb == Return("decimalToRgb", decimalToRgb(call.args[1]))

CallDecimalToHex == Return("decimalToHex", decimalToHex(call.args[1]))

CallHsvToRgb == Return("hsvToRgb", hsvToRgb(call.args[1]))

CallRgbToHsv == Return("rgbToHsv", rgbToHsv(call.args[1]))

CallMixRgb == Return("mixRgb", mixRgb(call.args[1], call.args[2], call.args[3]))

Next ==
    \/ CallToNumber
    \/ CallToBoolean
    \/ CallToString
    \/ CallToRgbColorObject
    \/ CallToRgbColorList
    \/ CallIsWhiteSpace
    \/ CallIsInt
    \/ CallCompare
    \/ CallToListIndex
    \/ CallHexToRgb
    \/ CallHexToDecimal
    \/ CallRgbToDecimal
    \/ CallRgbToHex
    \/ CallDecimalToRgb
    \/ CallDecimalToHex
    \/ CallHsvToRgb
    \/ CallRgbToHsv
    \/ CallMixRgb

Spec == Init /\ [][Next]_vars

(***************************************************************************)
(* The state machines of Scratch3CanvasBlocks: the blocks run one after    *)
(* another on one instance, in any order and with any argument drawn; the  *)
(* pen skin of the runtime appears at any time; the images fire onload or  *)
(* onerror, and the log requests complete, at any time.                    *)
(***************************************************************************)

\* The most fetches the image loads of one behaviour start.
MaxFetches == 17

\* No call of Cast or Color is in progress.
NoCall ==
    /\ pc = "idle"
    /\ call = Call("none", <<>>)
    /\ result = Pending

\* The pen extension creates the pen skin: runtime.penSkinId is set.
CreatePenSkin ==
    /\ ~canvas.penSkin
    /\ canvas' = [canvas EXCEPT !.penSkin = TRUE]
    /\ UNCHANGED <<call, result, pc, loads, post, target>>

\* beginPath, moveTo, setLineWidth, ...: the context is got and, when there
\* is one, its path, style or transform changes.
StateBlock ==
    \E op \in StateBlocks :
        /\ canvas' = GetContext(canvas, Undefined)
        /\ UNCHANGED <<call, result, pc, loads, post, target>>

\* stroke, fill, strokeText, fillText, clearRect.
PaintBlock ==
    \E op \in PaintBlocks :
        /\ canvas' = Painted(GetContext(canvas, Undefined))
        /\ UNCHANGED <<call, result, pc, loads, post, target>>

DrawImage ==
    \E value \in DrawArgs :
        /\ canvas' = drawImage(canvas, value)
        /\ UNCHANGED <<call, result, pc, loads, post, target>>

SwitchCanvas ==
    \E value \in SlotArgs :
        /\ canvas' = [switchCanvas(canvas, value) EXCEPT !.lastSwitch = SlotOf(value)]
        /\ UNCHANGED <<call, result, pc, loads, post, target>>

StampOnStage ==
    /\ canvas' = stampOnStage(canvas)
    /\ UNCHANGED <<call, result, pc, loads, post, target>>

\* Scratch3CanvasBlocks.loadImage: nothing without a context or for a
\* buffered image; else a fetch starts.
LoadImage ==
    \E imageId \in LoadArgs :
        /\ canvas' = GetContext(canvas, Undefined)
        /\ IF canvas'.ctx = 0 \/ Buffered(canvas', imageId)
           THEN UNCHANGED loads
           ELSE /\ loads.fetches < MaxFetches
                /\ loads' = FetchStarted(loads, imageId)
        /\ UNCHANGED <<call, result, pc, post, target>>

\* img.onload of an image being fetched.
ImageOnload ==
    \E imageId \in ImageIds :
        /\ loads.fetching[imageId] > 0
        /\ canvas' = [canvas EXCEPT !.bufferedImages = @ \cup {imageId}]
        /\ loads' = Loaded(loads, imageId)
        /\ UNCHANGED <<call, result, pc, post, target>>

\* img.onerror of an image being fetched.
ImageOnerror ==
    \E imageId \in ImageIds :
        /\ loads.fetching[imageId] > 0
        /\ loads' = Failed(loads, imageId)
        /\ UNCHANGED <<call, result, pc, canvas, post, target>>

\* A log request in flight succeeds.
LogDone ==
    \E i \in 1..Len(loads.logRequests) :
        /\ loads' = LogSucceeded(loads, i)
        /\ UNCHANGED <<call, result, pc, canvas, post, target>>

\* A log request in flight fails.
LogError ==
    \E i \in 1..Len(loads.logRequests) :
        /\ loads' = LogFailed(loads, i)
        /\ UNCHANGED <<call, result, pc, canvas, post, target>>

\* No block of Scratch3StringExtBlocks has run.
NoPost == post = NewStringExt /\ target = NewTarget

CanvasInit == NoCall /\ NoPost /\ canvas = NewCanvasBlocks /\ loads = NewLoads

CanvasNext ==
    \/ CreatePenSkin
    \/ StateBlock
    \/ PaintBlock
    \/ DrawImage
    \/ SwitchCanvas
    \/ StampOnStage

\* The drawing blocks on one instance.
CanvasSpec == CanvasInit /\ [][CanvasNext]_vars

ImageNext ==
    \/ CreatePenSkin
    \/ LoadImage
    \/ ImageOnload
    \/ ImageOnerror
    \/ LogDone
    \/ LogError
    \/ DrawImage

\* The image loads of one instance.
ImageSpec == CanvasInit /\ [][ImageNext]_vars

(***************************************************************************)
(* The state machines of Scratch3StringExtBlocks: postJson is called with  *)
(* any arguments at any time, each request in flight succeeds or fails at  *)
(* any time, postResponse reads in between; deserializeFromJson is called  *)
(* again and again on the variables of one target.                         *)
(***************************************************************************)

\* The most requests the posts of one behaviour send.
MaxRequests == 2

\* No canvas block has run.
NoCanvas == canvas = NewCanvasBlocks /\ loads = NewLoads

PostJson ==
    \E abnormal \in BOOLEAN, URL \in UrlNames, JSON \in PostTexts :
        /\ Len(postJson(post, abnormal, URL, JSON).requests) <= MaxRequests
        /\ post' = [postJson(post, abnormal, URL, JSON) EXCEPT
                       !.last = [kind |-> "postJson", abnormal |-> abnormal,
                                 URL |-> URL, JSON |-> JSON,
                                 before |-> post.postResponse,
                                 sent |-> Len(post.requests)]]
        /\ UNCHANGED <<call, result, pc, canvas, loads, target>>

\* The ajax helper reports done for a request in flight.
AjaxDone ==
    \E i \in 1..Len(post.requests), r \in ServerResponses :
        /\ post.requests[i].state = "sent"
        /\ post' = [Succeeded(post, i, r) EXCEPT
                       !.last = [kind |-> "done", request |-> i]]
        /\ UNCHANGED <<call, result, pc, canvas, loads, target>>

\* The ajax helper reports error for a request in flight.
AjaxError ==
    \E i \in 1..Len(post.requests) :
        /\ post.requests[i].state = "sent"
        /\ post' = [Errored(post, i) EXCEPT
                       !.last = [kind |-> "error", request |-> i]]
        /\ UNCHANGED <<call, result, pc, canvas, loads, target>>

PostResponse ==
    /\ post' = [post EXCEPT !.last = [kind |-> "postResponse",
                                      returned |-> postResponse(post)]]
    /\ UNCHANGED <<call, result, pc, canvas, loads, target>>

PostInit == NoCall /\ NoCanvas /\ NoPost

PostNext ==
    \/ PostJson
    \/ AjaxDone
    \/ AjaxError
    \/ PostResponse

\* The posts of one instance.
PostSpec == PostInit /\ [][PostNext]_vars

\* The posts of one instance, when the ajax helper reports done or error
\* for every request in the end.
PostFairSpec == PostSpec /\ WF_vars(AjaxDone \/ AjaxError)

DeserializeFromJson ==
    \E PREFIX \in Prefixes, json \in JsonTexts :
        /\ target' = [variables |->
                          deserializeFromJson(target.variables, PREFIX, json.text),
                      last |-> [kind |-> "deserializeFromJson", PREFIX |-> PREFIX,
                                JSON |-> json.text, before |-> target.variables]]
        /\ UNCHANGED <<call, result, pc, canvas, loads, post>>

\* The calls of deserializeFromJson on one target.
DeserializeSpec == PostInit /\ [][DeserializeFromJson]_vars

(***************************************************************************)
(* The properties                                                          *)
(***************************************************************************)

\* The call of op has returned (or thrown).
Done(op) == pc = "done" /\ call.op = op

Arg1 == call.args[1]
Arg2 == call.args[2]

Text(s) == Str(s)

\* A white-space value: null, or a string of white space only (the empty
\* string included).
Blank(v) ==
    v = Null \/ (IsString(v) /\ \A i \in 1..Len(v.s) : v.s[i] \in {" ", "\t", "\n"})

\* -1, 0 or 1: the order of the lower-cased string forms of two values.
StringOrder(v1, v2) ==
    IF StrLess(ToLowerCase(JsString(v1)), ToLowerCase(JsString(v2))) THEN Num(-1)
    ELSE IF ToLowerCase(JsString(v1)) = ToLowerCase(JsString(v2)) THEN Num(0)
    ELSE Num(1)

\* C1: no Color or Cast operation raises an exception, whatever the dynamic
\* value or the string it is called with: every call that has finished has
\* returned a value.
C1_NoCallThrows ==
    (pc = "done" /\ call.op \in {"toNumber", "toBoolean", "toString",
                                 "toRgbColorObject", "toRgbColorList",
                                 "isWhiteSpace", "compare", "isInt",
                                 "toListIndex", "hexToRgb", "hexToDecimal"})
        => ~IsThrow(result)

\* C2: toNumber never returns NaN: a number that is not NaN is returned
\* unchanged, NaN gives 0, and any other value gives its native numeric
\* parse, or 0 when that parse is NaN (toNumber("abc") = 0,
\* toNumber("42") = 42).
C2_ToNumberNeverNaN ==
    Done("toNumber") =>
        /\ IsNumber(result) /\ ~IsNaN(result)
        /\ (IsNumber(Arg1) /\ ~IsNaN(Arg1)) => result = Arg1
        /\ (IsNumber(Arg1) /\ IsNaN(Arg1)) => result = Num(0)
        /\ (~IsNumber(Arg1) /\ ~IsNaN(JsNumber(Arg1))) => result = JsNumber(Arg1)
        /\ (~IsNumber(Arg1) /\ IsNaN(JsNumber(Arg1))) => result = Num(0)
        /\ Arg1 = Text(<<"a", "b", "c">>) => result = Num(0)
        /\ Arg1 = Text(<<"4", "2">>) => result = Num(42)

\* toNumber("abc") has returned 0: the native parse of "abc" is NaN.
C2_Witness ==
    /\ Done("toNumber")
    /\ Arg1 = Text(<<"a", "b", "c">>)
    /\ result = Num(0)

\* C3: compare applies the white-space override in both argument positions:
\* when either argument is a white-space value the result is the order of
\* the lower-cased string forms, never the numeric difference; compare("", 0)
\* and compare(0, "") are not 0.
C3_WhiteSpaceOverride ==
    Done("compare") =>
        /\ (Blank(Arg1) \/ Blank(Arg2)) => result = StringOrder(Arg1, Arg2)
        /\ (Arg1 = Text(<<>>) /\ Arg2 = Num(0)) => result # Num(0)
        /\ (Arg1 = Num(0) /\ Arg2 = Text(<<>>)) => result # Num(0)

\* compare(0, "  ") has run: the white space is the second argument, and
\* both arguments are numerically 0.
C3_Witness ==
    /\ Done("compare")
    /\ Arg1 = Num(0)
    /\ Arg2 = Text(<<" ", " ">>)
    /\ result = Num(1)

\* Either operand of compare is NaN after the white-space adjustment: one
\* of them does not parse to a number, or is a white-space value.
StringCase(v1, v2) ==
    IsNaN(JsNumber(v1)) \/ IsNaN(JsNumber(v2)) \/ Blank(v1) \/ Blank(v2)

\* C4, as stated: compare has exactly two result shapes: the order of the
\* lower-cased string forms (-1, 0 or 1) when either operand is NaN after
\* the white-space adjustment, and otherwise the numeric difference n1 - n2.
C4_TwoShapes ==
    Done("compare") =>
        IF StringCase(Arg1, Arg2)
        THEN result = StringOrder(Arg1, Arg2)
        ELSE result = NumSub(JsNumber(Arg1), JsNumber(Arg2))

\* C4, amended: the order of the lower-cased string forms when either
\* operand is NaN after the white-space adjustment; otherwise 0 for two
\* infinities of the same sign, and the numeric difference n1 - n2 (not
\* clamped) for all other pairs.
C4_ThreeShapes ==
    Done("compare") =>
        IF StringCase(Arg1, Arg2)
        THEN result = StringOrder(Arg1, Arg2)
        ELSE IF ~IsFinite(JsNumber(Arg1)) /\ JsNumber(Arg1) = JsNumber(Arg2)
        THEN result = Num(0)
        ELSE result = NumSub(JsNumber(Arg1), JsNumber(Arg2))

\* compare has returned a numeric difference that is none of -1, 0, 1.
C4_Witness ==
    /\ Done("compare")
    /\ ~StringCase(Arg1, Arg2)
    /\ result \notin {Num(-1), Num(0), Num(1)}
    /\ result = NumSub(JsNumber(Arg1), JsNumber(Arg2))

PlusInfinities == {Infinity, Text(<<"I", "n", "f", "i", "n", "i", "t", "y">>)}

MinusInfinities ==
    {NegInfinity, Text(<<"-", "I", "n", "f", "i", "n", "i", "t", "y">>)}

\* C5: compare never returns NaN, and on infinities (numbers or the strings
\* "Infinity" / "-Infinity") it returns 0 for two of the same sign and the
\* first operand's infinity for two of opposite signs.
C5_Infinities ==
    Done("compare") =>
        /\ IsNumber(result) /\ ~IsNaN(result)
        /\ (Arg1 \in PlusInfinities /\ Arg2 \in PlusInfinities) => result = Num(0)
        /\ (Arg1 \in MinusInfinities /\ Arg2 \in MinusInfinities) => result = Num(0)
        /\ (Arg1 \in PlusInfinities /\ Arg2 \in MinusInfinities) => result = Infinity
        /\ (Arg1 \in MinusInfinities /\ Arg2 \in PlusInfinities) => result = NegInfinity

\* compare(-Infinity, "-Infinity") has returned 0.
C5_Witness ==
    /\ Done("compare")
    /\ Arg1 = NegInfinity
    /\ Arg2 = Text(<<"-", "I", "n", "f", "i", "n", "i", "t", "y">>)
    /\ result = Num(0)

Arg3 == call.args[3]

Keyword(s) == Text(s)

AllKeyword == Keyword(<<"a", "l", "l">>)
LastKeyword == Keyword(<<"l", "a", "s", "t">>)
RandomKeywords == {Keyword(<<"r", "a", "n", "d", "o", "m">>), Keyword(<<"a", "n", "y">>)}

\* v is an integer index into a list of this length: 1 <= v <= length.
IsIndexInto(v, length) ==
    IsNumber(v) /\ IsInteger(v) /\ 1 <= v.n /\ v.n <= length.n

\* C6: toListIndex returns INVALID, ALL or an integer i with
\* 1 <= i <= length; ALL only when acceptAll is true and the index is "all"
\* ("all" with acceptAll false gives INVALID); with length 0 no integer.
C6_ListIndexRange ==
    Done("toListIndex") =>
        /\ \/ result = LIST_INVALID
           \/ result = LIST_ALL
           \/ IsIndexInto(result, Arg2)
        /\ result = LIST_ALL => (Arg3.b /\ Arg1 = AllKeyword)
        /\ (Arg1 = AllKeyword /\ ~Arg3.b) => result = LIST_INVALID
        /\ (Arg1 = AllKeyword /\ Arg3.b) => result = LIST_ALL
        /\ Arg2 = Num(0) => ~IsNumber(result)

\* toListIndex("all", length, true) has returned ALL.
C6_Witness ==
    /\ Done("toListIndex")
    /\ Arg1 = AllKeyword
    /\ Arg3.b
    /\ result = LIST_ALL

\* i <= x < i + 1: the integer i is the floor of the number x.
IsFloorOf(i, x) ==
    ~NumLess(x, Num(i)) /\ NumLess(x, Num(i + 1))

\* C7: on the non-keyword path toListIndex coerces the index with toNumber,
\* floors it and only then checks the range: for a number or a string that
\* is no keyword, the result is the integer i of 1..length that is the
\* floor of toNumber(index), and INVALID when there is none
\* (toListIndex(3.9, 5, false) = 3, toListIndex(0, 5, false) = INVALID,
\* a non-numeric string and NaN give INVALID).
C7_FloorThenRange ==
    (Done("toListIndex")
     /\ (IsNumber(Arg1) \/ IsString(Arg1))
     /\ Arg1 \notin {AllKeyword, LastKeyword} \cup RandomKeywords) =>
        /\ \A i \in 1..Arg2.n : IsFloorOf(i, toNumber(Arg1)) => result = Num(i)
        /\ (\A i \in 1..Arg2.n : ~IsFloorOf(i, toNumber(Arg1))) => result = LIST_INVALID
        /\ (Arg1 = Rat(39, 10) /\ Arg2 = Num(5)) => result = Num(3)
        /\ Arg1 = Num(0) => result = LIST_INVALID
        /\ Arg1 \in {NaN, Text(<<"a", "b", "c">>)} => result = LIST_INVALID

\* toListIndex(5.1, 5, ...) has returned 5: the floor is in range though
\* the index itself is not.
C7_Witness ==
    /\ Done("toListIndex")
    /\ Arg1 = Rat(51, 10)
    /\ Arg2 = Num(5)
    /\ result = Num(5)

\* C8: with length > 0, "last" returns length and "random" / "any" return
\* an integer of 1..length, each of which is a possible outcome; with
\* length 0 the three keywords return INVALID.
C8_Keywords ==
    Done("toListIndex") =>
        /\ (Arg1 = LastKeyword /\ Arg2.n > 0) => result = Arg2
        /\ (Arg1 \in RandomKeywords /\ Arg2.n > 0) =>
              /\ IsIndexInto(result, Arg2)
              /\ \A i \in 1..Arg2.n : \E random \in RandomUnit :
                    toListIndex(Arg1, Arg2, Arg3.b, random) = Num(i)
        /\ (Arg1 \in {LastKeyword} \cup RandomKeywords /\ Arg2.n = 0) =>
              result = LIST_INVALID

\* toListIndex("random", MaxLength, ...) has returned the last index.
C8_Witness ==
    /\ Done("toListIndex")
    /\ Arg1 \in RandomKeywords
    /\ Arg2 = Num(MaxLength)
    /\ result = Arg2

\* C9: decimalToRgb is the inverse of rgbToDecimal on the 24-bit colours:
\* the decimal rgbToDecimal returns for r, g, b in [0, 255] is
\* r * 65536 + g * 256 + b, and decimalToRgb gives back r, g and b from it.
C9_DecimalRoundTrip ==
    Done("rgbToDecimal") =>
        /\ result = Num(Arg1.r.n * 65536 + Arg1.g.n * 256 + Arg1.b.n)
        /\ decimalToRgb(result).r = Arg1.r
        /\ decimalToRgb(result).g = Arg1.g
        /\ decimalToRgb(result).b = Arg1.b

\* rgbToDecimal has packed a colour with three different non-zero channels.
C9_Witness ==
    /\ Done("rgbToDecimal")
    /\ Arg1 = Rgb(Num(255), Num(16), Num(1))
    /\ decimalToRgb(result).r = Num(255)
    /\ decimalToRgb(result).g = Num(16)
    /\ decimalToRgb(result).b = Num(1)

\* C10: hexToRgb(rgbToHex(c)) = c for every colour c with channels in
\* [0, 255]: the hex string is '#' and six digits, also when the leading
\* channels are 0.
C10_HexRoundTrip ==
    Done("rgbToHex") =>
        /\ IsString(result)
        /\ Len(result.s) = 7
        /\ hexToRgb(result) = Arg1

\* rgbToHex has run on a colour whose red and green channels are 0.
C10_Witness ==
    /\ Done("rgbToHex")
    /\ Arg1 = Rgb(Num(0), Num(0), Num(15))
    /\ hexToRgb(result) = Arg1

LowerHexDigits ==
    {"0", "1", "2", "3", "4", "5", "6", "7", "8", "9", "a", "b", "c", "d", "e", "f"}

\* C11: for every integer decimal colour, negative ones and ones with alpha
\* bits above bit 23 included, decimalToHex returns '#' followed by exactly
\* six lower-case hexadecimal digits; a negative decimal is wrapped by adding
\* 0xFFFFFF + 1, so that the digits are those of decimal + 16777216, and
\* those of decimal itself from 0 to 0xFFFFFF.
C11_SixHexDigits ==
    Done("decimalToHex") =>
        /\ IsString(result)
        /\ Len(result.s) = 7
        /\ result.s[1] = "#"
        /\ \A i \in 2..Len(result.s) : result.s[i] \in LowerHexDigits
        /\ (Arg1.n >= 0 /\ Arg1.n <= 16777215) =>
              DigitsValue(Tail(result.s), 16) = Arg1.n
        /\ (Arg1.n < 0 /\ Arg1.n >= -16777216) =>
              DigitsValue(Tail(result.s), 16) = Arg1.n + 16777216

IsChannel(x) == IsNumber(x) /\ x.k = "fin" /\ x.d = 1 /\ x.n >= 0 /\ x.n <= 255

\* The byte 0..255 read as the top byte of a two's complement 32-bit integer.
SignedByte(byte) == IF byte >= 128 THEN byte - 256 ELSE byte

\* C12: for every 32-bit integer decimal, decimalToRgb returns r, g, b and a,
\* each an integer from 0 to 255, where r is bits 16..23, g bits 8..15,
\* b bits 0..7 and a is bits 24..31, except that an alpha byte of 0 becomes
\* 255: the alpha of the result is never 0.  The four bytes are stated by
\* the decimal they compose.
C12_DecimalBytes ==
    Done("decimalToRgb") =>
        /\ IsChannel(result.r) /\ IsChannel(result.g)
        /\ IsChannel(result.b) /\ IsChannel(result.a)
        /\ result.a # Num(0)
        /\ \E byte \in 0..255 :
              /\ SignedByte(byte) * 16777216 + result.r.n * 65536
                    + result.g.n * 256 + result.b.n = Arg1.n
              /\ result.a = IF byte = 0 THEN Num(255) ELSE Num(byte)

\* decimalToRgb has run on 0x123456, whose alpha byte is 0, and on a decimal
\* whose alpha byte is 127.
C12_Witness ==
    \/ /\ Done("decimalToRgb") /\ Arg1 = Num(1193046)
       /\ result = Rgba(Num(18), Num(52), Num(86), Num(255))
    \/ /\ Done("decimalToRgb") /\ Arg1 = Num(2130706432) /\ result.a = Num(127)

HexLower ==
    <<"0", "1", "2", "3", "4", "5", "6", "7", "8", "9", "a", "b", "c", "d", "e", "f">>

HexUpper ==
    <<"0", "1", "2", "3", "4", "5", "6", "7", "8", "9", "A", "B", "C", "D", "E", "F">>

IsHexChar(c) == \E i \in 1..16 : HexLower[i] = c \/ HexUpper[i] = c

HexCharValue(c) == (CHOOSE i \in 1..16 : HexLower[i] = c \/ HexUpper[i] = c) - 1

\* The characters after one optional leading '#'.
HexBody(s) == IF Len(s) > 0 /\ s[1] = "#" THEN SubSeq(s, 2, Len(s)) ELSE s

IsHexColour(s) ==
    /\ Len(HexBody(s)) \in {3, 6}
    /\ \A i \in 1..Len(HexBody(s)) : IsHexChar(HexBody(s)[i])

\* The six digits a hex colour stands for: a three-digit one with each
\* digit doubled.
SixDigits(body) ==
    IF Len(body) = 3
    THEN <<body[1], body[1], body[2], body[2], body[3], body[3]>>
    ELSE body

ChannelOf(six, i) == Num(16 * HexCharValue(six[i]) + HexCharValue(six[i + 1]))

\* C13: hexToRgb returns a colour exactly when the string is one optional
\* '#' followed by exactly three or exactly six hexadecimal digits of any
\* case; the colour has the channels the six digits give, a three-digit
\* string giving those of its six-digit form with each digit doubled; every
\* other string gives null.
C13_HexShapes ==
    Done("hexToRgb") =>
        IF IsHexColour(Arg1.s)
        THEN result = Rgb(ChannelOf(SixDigits(HexBody(Arg1.s)), 1),
                          ChannelOf(SixDigits(HexBody(Arg1.s)), 3),
                          ChannelOf(SixDigits(HexBody(Arg1.s)), 5))
        ELSE result = Null

\* hexToRgb has run on a three-digit colour, and on its six-digit form, and
\* on a malformed string.
C13_Witness ==
    \/ /\ Done("hexToRgb") /\ Arg1 = Text(<<"#", "0", "a", "3">>)
       /\ result = Rgb(Num(0), Num(170), Num(51))
    \/ /\ Done("hexToRgb") /\ Arg1 = Text(<<"#", "a", "1", "B", "2", "c", "3">>)
       /\ result = Rgb(Num(161), Num(178), Num(195))
    \/ /\ Done("hexToRgb") /\ Arg1 = Text(<<"#", "f", "f", "f", "f">>)
       /\ result = Null

BeginsWithHash(v) == IsString(v) /\ Len(v.s) > 0 /\ v.s[1] = "#"

OpaqueBlack == Rgba(Num(0), Num(0), Num(0), Num(255))

\* The colour the claim gives a value.
ColourOf(v) ==
    IF BeginsWithHash(v)
    THEN (IF hexToRgb(v) = Null THEN OpaqueBlack ELSE hexToRgb(v))
    ELSE decimalToRgb(toNumber(v))

\* C14: toRgbColorObject returns, for a string that begins with '#', the
\* colour hexToRgb gives it, or black with alpha 255 when hexToRgb gives
\* null; for every other value it returns decimalToRgb(toNumber(value)).
\* In all cases r, g and b are integers from 0 to 255, and toRgbColorList
\* returns exactly the array [r, g, b] of that colour.
C14_ColorDispatch ==
    /\ Done("toRgbColorObject") =>
          /\ result = ColourOf(Arg1)
          /\ IsChannel(result.r) /\ IsChannel(result.g) /\ IsChannel(result.b)
    /\ Done("toRgbColorList") =>
          /\ result.t = "array"
          /\ result.items = <<ColourOf(Arg1).r, ColourOf(Arg1).g, ColourOf(Arg1).b>>
          /\ \A i \in 1..3 : IsChannel(result.items[i])

\* toRgbColorObject has run on a hex string, on a malformed '#' string and
\* on a decimal; toRgbColorList has run on a hex string.
C14_Witness ==
    \/ /\ Done("toRgbColorObject") /\ Arg1 = Text(<<"#", "0", "a", "3">>)
       /\ result = Rgb(Num(0), Num(170), Num(51))
    \/ /\ Done("toRgbColorObject") /\ Arg1 = Text(<<"#", "g", "g", "g">>)
       /\ result = OpaqueBlack
    \/ /\ Done("toRgbColorObject") /\ Arg1 = Num(16777215)
       /\ result = Rgba(Num(255), Num(255), Num(255), Num(255))
    \/ /\ Done("toRgbColorList") /\ Arg1 = Text(<<"#", "0", "a", "3">>)
       /\ result.items = <<Num(0), Num(170), Num(51)>>

\* The whole turns of the hue circle that are added to a hue.
Turns == -2..2

\* The nearest bound of [0, 1] for a number outside it.
NearestBound(x) ==
    IF NumLess(x, Num(0)) THEN Num(0) ELSE IF NumLess(Num(1), x) THEN Num(1) ELSE x

\* C15: hsvToRgb normalises its input before it computes: a hue moved by any
\* whole number of turns (h + 360k) gives the colour that h gives, and a
\* saturation or value outside [0, 1] gives the colour of the nearest bound
\* (below 0 as 0, above 1 as 1).
C15_HsvNormalised ==
    Done("hsvToRgb") =>
        /\ \A k \in Turns :
              hsvToRgb(Hsv(NumAdd(Arg1.h, Num(360 * k)), Arg1.s, Arg1.v)) = result
        /\ hsvToRgb(Hsv(Arg1.h, NearestBound(Arg1.s), Arg1.v)) = result
        /\ hsvToRgb(Hsv(Arg1.h, Arg1.s, NearestBound(Arg1.v))) = result

\* hsvToRgb has run on a negative hue with a saturation above 1, and on a
\* hue above 360 with a value below 0.
C15_Witness ==
    \/ /\ Done("hsvToRgb")
       /\ Arg1 = Hsv(Num(-90), Rat(3, 2), Rat(1, 2))
       /\ result = Rgb(Num(63), Num(0), Num(127))
    \/ /\ Done("hsvToRgb")
       /\ Arg1 = Hsv(Num(750), Rat(1, 2), Rat(-1, 2))
       /\ result = Rgb(Num(0), Num(0), Num(0))

\* The hue h - 360 * floor(h / 360), in [0, 360), of a finite hue.
CanonicalHue(h) == Rat(h.n - 360 * h.d * (h.n \div (360 * h.d)), h.d)

\* The fraction of h / 60 above its whole part, for a hue in [0, 360).
SectorFraction(h) == Rat(h.n - 60 * h.d * (h.n \div (60 * h.d)), 60 * h.d)

\* The four values a channel of hsvToRgb is taken from: v, p, q and t.
ChannelValues(f, s, v) ==
    {v,
     NumMul(v, NumSub(Num(1), s)),
     NumMul(v, NumSub(Num(1), NumMul(s, f))),
     NumMul(v, NumSub(Num(1), NumMul(s, NumSub(Num(1), f))))}

\* c is the whole number floor(x * 255): c <= 255 x < c + 1.
IsFloorOf255(c, x) ==
    /\ IsInteger(c)
    /\ c.n * x.d <= 255 * x.n
    /\ 255 * x.n < (c.n + 1) * x.d

Largest(rgb) == MathMax(MathMax(rgb.r, rgb.g), rgb.b)
Smallest(rgb) == MathMin(MathMin(rgb.r, rgb.g), rgb.b)

\* The statement of C16 for a hue in [0, 360) and s, v in [0, 1].
FlooredSector(rgb, h, s, v) ==
    /\ \A c \in {rgb.r, rgb.g, rgb.b} :
          /\ IsChannel(c)
          /\ \E x \in ChannelValues(SectorFraction(h), s, v) : IsFloorOf255(c, x)
    /\ IsFloorOf255(Largest(rgb), v)
    /\ IsFloorOf255(Smallest(rgb), NumMul(v, NumSub(Num(1), s)))

HsvExamples ==
    /\ (Done("hsvToRgb") /\ Arg1 = Hsv(Num(0), Num(0), Num(1)))
          => result = Rgb(Num(255), Num(255), Num(255))
    /\ (Done("hsvToRgb") /\ Arg1 = Hsv(Num(0), Num(1), Num(1)))
          => result = Rgb(Num(255), Num(0), Num(0))

\* C16 as stated: for every HSV input whose h, s and v are numbers,
\* hsvToRgb returns r, g and b that are integers from 0 to 255.
C16_AlwaysChannels ==
    Done("hsvToRgb") =>
        IsChannel(result.r) /\ IsChannel(result.g) /\ IsChannel(result.b)

\* C16, amended: for every HSV input whose h is finite and whose s and v
\* are not NaN, hsvToRgb returns r, g and b that are integers from 0 to 255,
\* each the floor (not the rounding) of 255 times one of v, p, q and t of
\* the sector of the hue, the largest channel being floor(255 v) and the
\* smallest floor(255 p); {h:0, s:0, v:1} gives {255, 255, 255} and
\* {h:0, s:1, v:1} gives {255, 0, 0}.
C16_FiniteFloored ==
    /\ HsvExamples
    /\ (Done("hsvToRgb") /\ IsFinite(Arg1.h) /\ ~IsNaN(Arg1.s) /\ ~IsNaN(Arg1.v))
          => FlooredSector(result, CanonicalHue(Arg1.h),
                           NearestBound(Arg1.s), NearestBound(Arg1.v))

\* hsvToRgb has run on a hue inside a sector, where flooring and rounding
\* differ (191.25, 143.4375 and 95.625 give 191, 143 and 95).
C16_Witness ==
    /\ Done("hsvToRgb")
    /\ Arg1 = Hsv(Num(30), Rat(1, 2), Rat(3, 4))
    /\ result = Rgb(Num(191), Num(143), Num(95))

InUnit(x) == IsFinite(x) /\ NumLessEq(Num(0), x) /\ NumLessEq(x, Num(1))

IsGray(rgb) == rgb.r = rgb.g /\ rgb.g = rgb.b

\* C17: for every RGB colour whose components are integers from 0 to 255,
\* rgbToHsv returns a hue h with 0 <= h < 360 (never 360, never negative),
\* s and v in [0, 1], and no component that is NaN; for every gray
\* r = g = b, black included, h = 0 and s = 0.
C17_HsvRanges ==
    Done("rgbToHsv") =>
        /\ IsFinite(result.h) /\ NumLessEq(Num(0), result.h)
        /\ NumLess(result.h, Num(360))
        /\ InUnit(result.s)
        /\ InUnit(result.v)
        /\ IsGray(Arg1) => (result.h = Num(0) /\ result.s = Num(0))

\* rgbToHsv has run on red, whose hue is 360 before the remainder is taken,
\* on a gray, and on black.
C17_Witness ==
    \/ /\ Done("rgbToHsv") /\ Arg1 = Rgb(Num(255), Num(0), Num(0))
       /\ result = Hsv(Num(0), Num(1), Num(1))
    \/ /\ Done("rgbToHsv") /\ Arg1 = Rgb(Num(128), Num(128), Num(128))
       /\ result = Hsv(Num(0), Num(0), Rat(128, 255))
    \/ /\ Done("rgbToHsv") /\ Arg1 = RGB_BLACK
       /\ result = Hsv(Num(0), Num(0), Num(0))

\* C18: mixRgb returns rgb0 for every fraction1 <= 0 and rgb1 for every
\* fraction1 >= 1; for 0 < fraction1 < 1 each channel is the weighted
\* average (1 - fraction1) * rgb0 + fraction1 * rgb1, neither rounded nor
\* clamped, stated here as rgb0 + fraction1 * (rgb1 - rgb0);
\* mixRgb(black, white, 1/2) has every channel equal to 127.5.
C18_MixRgb ==
    Done("mixRgb") =>
        /\ NumLessEq(Arg3, Num(0)) => result = Arg1
        /\ NumGreaterEq(Arg3, Num(1)) => result = Arg2
        /\ (NumLess(Num(0), Arg3) /\ NumLess(Arg3, Num(1))) =>
              result = Rgb(NumAdd(Arg1.r, NumMul(Arg3, NumSub(Arg2.r, Arg1.r))),
                           NumAdd(Arg1.g, NumMul(Arg3, NumSub(Arg2.g, Arg1.g))),
                           NumAdd(Arg1.b, NumMul(Arg3, NumSub(Arg2.b, Arg1.b))))
        /\ (Arg1 = RGB_BLACK /\ Arg2 = RGB_WHITE /\ Arg3 = Rat(1, 2)) =>
              result = Rgb(Rat(255, 2), Rat(255, 2), Rat(255, 2))

\* mixRgb has mixed black and white in equal parts.
C18_Witness ==
    /\ Done("mixRgb")
    /\ Arg1 = RGB_BLACK /\ Arg2 = RGB_WHITE /\ Arg3 = Rat(1, 2)
    /\ result = Rgb(Rat(255, 2), Rat(255, 2), Rat(255, 2))

\* The number with its fraction dropped: an infinity and a whole number
\* from 1e21 on are their own truncation.
OwnTruncation(x) == IF x.k = "fin" THEN Num(TruncDiv(x.n, x.d)) ELSE x

\* C19: isInt(val) is true exactly when val is a number that is NaN or
\* equals its own truncation (for every number: +Infinity, -Infinity and
\* very large magnitudes included), or val is a boolean, or val is a string
\* with no '.' in it ("1e5" is integer-like and "1.0" is not); it is false
\* for every other value.
C19_IsIntExactly ==
    Done("isInt") =>
        result.b = \/ /\ IsNumber(Arg1)
                      /\ (IsNaN(Arg1) \/ Arg1 = OwnTruncation(Arg1))
                   \/ Arg1.t = "boolean"
                   \/ /\ IsString(Arg1)
                      /\ \A i \in 1..Len(Arg1.s) : Arg1.s[i] # "."

\* A string with nothing but white space in it (the empty string is one).
TrimsToEmpty(v) ==
    IsString(v) /\ \A i \in 1..Len(v.s) : v.s[i] \in {" ", "\t", "\n"}

\* C20 as stated: isWhiteSpace(value) is true exactly when the value is
\* absent, null or undefined, or is a string that trims to the empty
\* string, and false for every other value.
C20_AbsentOrBlank ==
    Done("isWhiteSpace") =>
        result.b = (Arg1 = Null \/ Arg1 = Undefined \/ TrimsToEmpty(Arg1))

\* C20, amended: isWhiteSpace(value) is true exactly when the value is null
\* or is a string that trims to the empty string, and false for every other
\* value: undefined, numbers, booleans, strings that are not blank.
C20_NullOrBlank ==
    Done("isWhiteSpace") =>
        result.b = (Arg1 = Null \/ TrimsToEmpty(Arg1))

\* isWhiteSpace has run on undefined and said false.
C20_Witness ==
    Done("isWhiteSpace") /\ Arg1 = Undefined /\ result = Bool(FALSE)

FalseLower == <<"f", "a", "l", "s", "e">>
FalseUpper == <<"F", "A", "L", "S", "E">>

\* A spelling of "false" in any mix of letter cases.
SpellsFalse(s) ==
    Len(s) = 5 /\ \A i \in 1..5 : s[i] = FalseLower[i] \/ s[i] = FalseUpper[i]

\* The truthiness of a value that is neither a boolean nor a string: a
\* number other than 0 and NaN is true, null and undefined are false.
Truthy(v) ==
    IF IsNumber(v) THEN ~(IsNaN(v) \/ (v.k = "fin" /\ v.n = 0)) ELSE FALSE

\* C21: toBoolean returns a boolean as it is; a string is false exactly
\* when it is "", "0" or a spelling of "false" in any letter case, and true
\* otherwise (strings of white space, "no" and "null" included); a value of
\* another type gives its truthiness.
C21_ToBoolean ==
    Done("toBoolean") =>
        IF Arg1.t = "boolean" THEN result = Arg1
        ELSE IF IsString(Arg1)
        THEN result = Bool(~(Arg1.s = <<>> \/ Arg1.s = <<"0">> \/ SpellsFalse(Arg1.s)))
        ELSE result = Bool(Truthy(Arg1))

\* toBoolean has run on "FALSE", on "no" and on a blank string.
C21_Witness ==
    \/ /\ Done("toBoolean") /\ Arg1 = Text(<<"F", "A", "L", "S", "E">>)
       /\ result = Bool(FALSE)
    \/ /\ Done("toBoolean") /\ Arg1 = Text(<<"n", "o">>) /\ result = Bool(TRUE)
    \/ /\ Done("toBoolean") /\ Arg1 = Text(<<" ">>) /\ result = Bool(TRUE)

IsNegative(x) == NumLess(x, Num(0))

NumberOrString(v) == IsNumber(v) \/ IsString(v)

\* C22 as stated: compare is transitive on numbers, numeric strings and
\* non-numeric strings: when compare(a, b) < 0 and compare(b, c) < 0 then
\* compare(a, c) < 0.  The call that has run is compare(a, b); c is every
\* value drawn.
C22_Transitive ==
    (/\ Done("compare") /\ IsNegative(result)
     /\ NumberOrString(Arg1) /\ NumberOrString(Arg2)) =>
        \A c \in PairValues :
            (NumberOrString(c) /\ IsNegative(compare(Arg2, c)))
                => IsNegative(compare(Arg1, c))

\* A value compare reads as text: one that converts to NaN, or a blank one.
Textual(v) == IsNaN(JsNumber(v)) \/ Blank(v)

SameKind(a, b, c) ==
    \/ Textual(a) /\ Textual(b) /\ Textual(c)
    \/ ~Textual(a) /\ ~Textual(b) /\ ~Textual(c)

\* C22, amended: compare is transitive on three values of one kind, all
\* three read as numbers (numbers other than NaN, numeric strings) or all
\* three read as text (non-numeric strings, blank strings, NaN): when
\* compare(a, b) < 0 and compare(b, c) < 0 then compare(a, c) < 0.
C22_TransitiveInKind ==
    (/\ Done("compare") /\ IsNegative(result)
     /\ NumberOrString(Arg1) /\ NumberOrString(Arg2)) =>
        \A c \in PairValues :
            (/\ NumberOrString(c) /\ SameKind(Arg1, Arg2, c)
             /\ IsNegative(compare(Arg2, c)))
                => IsNegative(compare(Arg1, c))

\* compare has put "2" before "10", which is before "42", and "FALSE"
\* before "no", which is before "null".
C22_Witness ==
    \/ /\ Done("compare") /\ Arg1 = Text(<<"2">>) /\ Arg2 = Text(<<"1", "0">>)
       /\ result = Num(-8)
       /\ IsNegative(compare(Arg2, Text(<<"4", "2">>)))
    \/ /\ Done("compare") /\ Arg1 = Text(<<"F", "A", "L", "S", "E">>)
       /\ Arg2 = Text(<<"n", "o">>) /\ result = Num(-1)
       /\ IsNegative(compare(Arg2, Text(<<"n", "u", "l", "l">>)))

\* -1, 0 or 1 by the sign of a number that is not NaN.
SignOfNumber(x) ==
    IF NumLess(x, Num(0)) THEN -1 ELSE IF NumLess(Num(0), x) THEN 1 ELSE 0

\* C23: compare is reflexive and antisymmetric in sign on all dynamic
\* values (numbers with NaN and the infinities, booleans, strings with the
\* blank ones, null): compare(a, a) = 0, and the sign of compare(a, b) is
\* the negation of the sign of compare(b, a), although the white-space
\* adjustment is applied to one operand only in a call.
C23_Antisymmetric ==
    Done("compare") =>
        /\ ~IsNaN(result)
        /\ SignOfNumber(result) = -SignOfNumber(compare(Arg2, Arg1))
        /\ (Arg1 = Arg2) => result = Num(0)

\* compare has run on "" and 0, where the adjustment turns the first
\* operand into NaN, and on 0 and "", where it turns the second.
C23_Witness ==
    \/ /\ Done("compare") /\ Arg1 = Text(<<>>) /\ Arg2 = Num(0)
       /\ result = Num(-1)
    \/ /\ Done("compare") /\ Arg1 = Num(0) /\ Arg2 = Text(<<>>)
       /\ result = Num(1)


\* What createBitmapSkin and createDrawable were called for, so far.
RendererCalls(c) == Len(c.bitmapSkins) + c.drawables

\* Every canvas of a slot of c is still the canvas of that slot in d.
SlotsKept(c, d) ==
    \A key \in SlotKeys : c.canvasList[key] # 0 => d.canvasList[key] = c.canvasList[key]

\* C24: the lazily created resources are never created again: across the
\* canvas blocks on one instance, createBitmapSkin and createDrawable are
\* each called at most once, and only by a block that runs while the pen
\* skin exists; a slot that has its canvas keeps that canvas object, and a
\* canvas that was drawn on stays drawn on, whatever is selected later.
C24_NeverRecreated ==
    /\ [](Len(canvas.bitmapSkins) <= 1 /\ canvas.drawables <= 1)
    /\ [][/\ RendererCalls(canvas') # RendererCalls(canvas) => canvas.penSkin
          /\ SlotsKept(canvas, canvas')
          /\ canvas.drawn \subseteq canvas'.drawn]_vars

\* Slot 7 was created and drawn on, and slot 0 is selected again; the skin
\* and the drawable exist.
C24_Witness ==
    /\ Len(canvas.bitmapSkins) = 1
    /\ canvas.drawables = 1
    /\ canvas.canvasList[Num(7)] # 0
    /\ canvas.canvasList[Num(7)] \in canvas.drawn
    /\ canvas.ctx = canvas.canvasList[Num(0)]
    /\ canvas.stamped

\* The eight slots this._canvasList is created with.
EightSlots == {Num(i) : i \in 0..7}

\* The keys of this._canvasList that hold a canvas.
SlotsUsed == {key \in SlotKeys : canvas.canvasList[key] # 0}

\* C25: the current context belongs to the slot the most recent switchCanvas
\* chose (slot 0 when none has run), which is min(max(0, toNumber(n)), 7);
\* every slot used is one of the eight slots 0..7; and a block other than
\* switchCanvas leaves the selection as it is.
C25_CurrentIsSelected ==
    /\ [](/\ canvas.lastSwitch \in EightSlots
          /\ SlotsUsed \subseteq EightSlots
          /\ canvas.ctx # 0 => canvas.ctx = canvas.canvasList[canvas.lastSwitch])
    /\ [][SwitchCanvas \/ canvas.ctx = 0 \/ canvas'.ctx = canvas.ctx]_vars

\* The fetches of l that have not fired yet.
InFlight(l) == {id \in ImageIds : l.fetching[id] > 0}

\* C26: the promise of a loadImage call that started a fetch is resolved
\* exactly when its image fires onload or onerror; an image id is drawn by
\* drawImage, and is buffered, only after a load of it succeeded (a load
\* that failed buffers nothing); and loadImage starts no fetch for an id
\* that is buffered.
C26_LoadPromises ==
    /\ [](/\ \A id \in ImageIds : loads.pending[id] = loads.fetching[id]
          /\ canvas.bufferedImages = loads.loadedIds
          /\ canvas.imageDraws \subseteq loads.loadedIds)
    /\ [][\A id \in ImageIds :
              Buffered(canvas, id) => loads'.fetching[id] <= loads.fetching[id]]_vars

\* One image was loaded and drawn, a load of the other failed and nothing
\* is in flight.
C26_Witness ==
    /\ canvas.imageDraws = {ImageId("a")}
    /\ ImageId("b") \notin canvas.bufferedImages
    /\ InFlight(loads) = {}
    /\ loads.fetches > loads.loadedImages
    /\ loads.loadedImages > 1

\* C27: the accounting of the image loads is conserved under every
\* interleaving of loads and log completions: 131072 times the number of
\* images loaded is the current _totalLoadedSize plus the sum of deltaSize
\* over the log requests that succeeded.
C27_Conserved ==
    LoadedImageSize * loads.loadedImages =
        (IF loads.totalLoadedSize.t = "undefined" THEN 0 ELSE loads.totalLoadedSize.n)
            + loads.reportedSize

\* The URL names one of the urls postJson knows.
KnownUrl(URL) == Trim(toString(URL).s) = <<"c", "l", "o", "u", "d", "S", "p", "a", "c", "e">>

\* The JSON of a call parses.
Parses(JSON) == JsonParse(toString(JSON)).t # "throw"

\* postJson sent nothing and wrote the response.
Rejected(response) ==
    /\ Len(post.requests) = post.last.sent
    /\ post.postResponse = response

\* C28: postJson sends a request only when every check passes: when
\* detectAbnormalAction is true nothing is sent and _postResponse is as
\* before; else a URL name that is not known gives {error: "invalid url"},
\* and a JSON that does not parse {error: "invalid json"}, both without a
\* request; else exactly one POST is sent, after which _postResponse
\* becomes the response of the server when the request succeeds and
\* {error: "unexpected error"} when it fails.
C28_PostJsonOutcomes ==
    /\ post.last.kind = "postJson" =>
          IF post.last.abnormal THEN Rejected(post.last.before)
          ELSE IF ~KnownUrl(post.last.URL) THEN Rejected(INVALID_URL)
          ELSE IF ~Parses(post.last.JSON) THEN Rejected(INVALID_JSON)
          ELSE /\ Len(post.requests) = post.last.sent + 1
               /\ post.requests[Len(post.requests)].state = "sent"
    /\ post.last.kind = "done" => post.postResponse \in ServerResponses
    /\ post.last.kind = "error" => post.postResponse = UNEXPECTED_ERROR

\* The promise of a request is resolved, once, when the request completed,
\* and is pending before.
ResolvedOnCompletion(request) ==
    /\ request.resolutions <= 1
    /\ request.promise = IF request.state = "sent" THEN "pending" ELSE "resolved"
    /\ request.resolutions = IF request.state = "sent" THEN 0 ELSE 1

\* C29: the promise of every request postJson sent is resolved exactly
\* once, by the done or the error callback of the request and not before,
\* and when it is resolved _postResponse has been written with the outcome
\* of that request; it is never rejected, and it does not stay pending
\* when the ajax helper reports. With requests that overlap, _postResponse
\* is the outcome of the request that completed last.
PromisesResolved ==
    /\ \A i \in 1..Len(post.requests) : ResolvedOnCompletion(post.requests[i])
    /\ post.last.kind \in {"done", "error"} =>
          /\ post.requests[post.last.request].promise = "resolved"
          /\ post.postResponse = post.requests[post.last.request].outcome

IsResolved(i) == Len(post.requests) >= i /\ post.requests[i].promise = "resolved"

C29_PromiseResolves ==
    /\ []PromisesResolved
    /\ \A i \in 1..MaxRequests : (Len(post.requests) >= i) ~> IsResolved(i)

\* Two requests overlapped; the second failed first and the first succeeded
\* last.
C29_Witness ==
    /\ Len(post.requests) = 2
    /\ post.requests[2].state = "error"
    /\ post.requests[1].state = "done"
    /\ post.last = [kind |-> "done", request |-> 1]
    /\ post.postResponse \in ServerResponses

\* The value the JSON itself has under the key: an entry of the object or
\* an element of the array.
JsonValueUnder(jsonObj, key) ==
    CASE jsonObj.t = "object" -> OwnProperty(jsonObj.entries, key, Len(jsonObj.entries))
      [] jsonObj.t = "array" /\ IndexOfKey(Len(jsonObj.items), key) # {} ->
            jsonObj.items[CHOOSE i \in IndexOfKey(Len(jsonObj.items), key) : TRUE]
      [] OTHER -> Undefined

\* The variable was set as the claim says a variable is set from the value.
SetFrom(variable, value) ==
    /\ value.t \notin {"null", "undefined"}
    /\ variable.type # BROADCAST_MESSAGE_TYPE
    /\ variable.type = LIST_TYPE =>
          /\ value.t = "array"
          /\ variable.value = Arr(NullsBlanked(value.items))
    /\ variable.type = SCALAR_TYPE => variable.value = Str(StringOf(value))

\* A variable that the call changed begins with the prefix and was set
\* from the value the JSON has under the rest of its name.
OnlyAddressed(variables, before, prefix, jsonObj) ==
    \A i \in 1..Len(variables) :
        variables[i] # before[i] =>
            /\ StartsWith(variables[i].name, prefix)
            /\ SetFrom(variables[i],
                       JsonValueUnder(jsonObj, Substr(variables[i].name, Len(prefix))))

FrameOf(variables, before, prefix, jsonObj) ==
    IF jsonObj.t = "throw" \/ ~JsTruthy(jsonObj) THEN variables = before
    ELSE OnlyAddressed(variables, before, prefix, jsonObj)

\* C30: deserializeFromJson changes only what the JSON addresses: no
\* variable when the text does not parse or parses to a falsy value; else
\* only a variable whose name begins with the trimmed prefix and for which
\* the JSON has a value other than null under the rest of the name, a list
\* only from an array (null elements becoming ''), a scalar to the string
\* form of the value, and a broadcast message never.
C30_OnlyAddressed ==
    target.last.kind = "deserializeFromJson" =>
        FrameOf(target.variables, target.last.before,
                Trim(toString(target.last.PREFIX).s), JsonParse(target.last.JSON))
=============================================================================
